---- MODULE Spec2Model ----
(***************************************************************************)
(* Task orchestration and live-state synchronisation of the CNKI console.  *)
(*                                                                         *)
(* TaskManager (src/unnamed/part_002) keeps the task collection `tasks`,   *)
(* the four status counters it writes into the page, and the handle of the *)
(* polling timer.  CNKIApp (src/unnamed/part_001) receives the push events *)
(* and owns the operator log.  The remote worker and the network are the   *)
(* environment.  Every fetch('/api/tasks') is a message in `inflight`      *)
(* whose answer reaches the page later, in any order with respect to the   *)
(* other requests.                                                         *)
(*                                                                         *)
(* Spec      the task manager with every public method callable in any     *)
(*           order, and a worker that may answer a poll with any task list *)
(*           at all.                                                       *)
(* PollSpec  polls alone, the worker answering with any list of up to      *)
(*           MaxListLen tasks.                                             *)
(* SyncSpec  the page as wired (tab events, timer and socket only)         *)
(*           against a worker that holds the task list `server`, moves     *)
(*           each task along its lifecycle and answers a poll with the     *)
(*           list it holds at that moment.                                 *)
(* LiveSpec  SyncSpec with a silent socket, and with timer ticks, answers  *)
(*           and deliveries fair.                                          *)
(* CmdSpec   the pause, resume and stop commands (the buttons of the task  *)
(*           cards and the three bulk operations) together with polls.     *)
(* SelectSpec   ArticleManager (src/static/js/articles.js): page loads and *)
(*           the selection.                                                *)
(* ArticleSpec  SelectSpec with the bulk and single download dispatch and  *)
(*           the refresh of the download list (src/static/js/download.js). *)
(* PageSpec  page loads alone, answered with any page number and total.    *)
(* FilterSpec   the filter controls, searchArticles and the pagination     *)
(*           links, the articles of a page carrying any keywords.          *)
(* StatsSpec page loads and the statistics request that follows each.      *)
(* RaceSpec  page loads that overlap: a call while another is in flight.   *)
(* PushSpec  the socket events of CNKIApp, the reloads a finished keyword   *)
(*           task triggers, polls and the selection.                       *)
(* DownloadSpec DownloadManager (src/static/js/download.js): the download  *)
(*           list and the start, stop and details buttons.                 *)
(* HistorySpec  SearchManager: the search history with its buttons and the *)
(*           journal form.                                                 *)
(* SearchSpec   SearchManager (src/static/js/search.js): the keyword form  *)
(*           and its start request.                                        *)
(* LogSpec   addLog alone, called on a log of any length up to its         *)
(*           capacity.                                                     *)
(***************************************************************************)
EXTENDS Integers, Sequences, FiniteSets, TLC

\* ------------------------------------------------------------------ bounds
MaxTasks    == 1   \* tasks the worker holds in Spec, SyncSpec and LiveSpec
MaxListLen  == 2   \* tasks the worker holds in PollSpec
MaxInflight == 2   \* GET /api/tasks requests in flight at once
MaxLog      == 2   \* log entries appended in one run of the model
MaxTimers   == 2   \* live interval timers (more than one only if leaked)
MaxCommands == 1   \* pause/resume/stop requests in flight at once
MaxDetailReqs == 1 \* GET /api/tasks/<id> requests in flight at once
MaxDlCommands == 2 \* start, stop and details requests of the download panel in flight at once
MaxArticles == 2   \* articles the worker has (ids 1..MaxArticles)
MaxPage     == 2   \* article pages asked for and answered
MaxArticleReqs == 1  \* GET /api/articles requests in flight at once
MaxDownloads == 2  \* POST /api/articles/download requests in flight at once
MaxWorkers  == 1   \* the values of the #maxWorkers input
MaxPageNo   == 6   \* page numbers the worker of PageSpec answers with
MaxTotal    == 100 \* totals the worker of PageSpec reports
MaxAppends  == 3   \* addLog calls in one run of LogSpec
MaxRacing   == 2   \* GET /api/articles requests in flight at once in RaceSpec
MaxText     == 3   \* characters in #keywords
MaxSearchReqs  == 1  \* POST /api/keyword/scrape requests in flight at once
MaxTypesReqs == 1 \* GET /api/literature/types requests in flight at once
MaxHistoryReqs == 1  \* GET /api/search/history requests in flight at once

\* ------------------------------------------------------- program constants
LogCap == 100       \* addLog keeps at most 100 entries
ArticlesPerPage == 10  \* CNKIApp.articlesPerPage, sent as per_page

\* null, which `if (this.refreshInterval)` takes for false like 0; timer ids are >= 1.
Null == 0
\* The value of `result.tasks` when the response has no such field: no task
\* list holds it (task ids are >= 1).
Undefined == <<[id |-> 0, status |-> "undefined", can_resume |-> FALSE]>>

Statuses == {"pending", "running", "paused", "completed", "failed"}
Levels   == {"info", "success", "warning", "error"}
\* The levels the worker's log events carry in the model.
PushLevels == {"info", "error"}

VARIABLES
    tasks,            \* TaskManager.tasks: a sequence of task records, or Undefined
    displayed,        \* the task cards in #tasksList, in order (empty: the "no tasks" notice)
    stats,            \* the four counters shown in the page (textContent of #...TasksCount)
    refreshInterval,  \* TaskManager.refreshInterval: Null or a timer id
    timers,           \* interval timers alive in the event loop (setInterval minus clearInterval)
    inflight,         \* GET /api/tasks requests not yet resolved, in the order issued
    log,              \* children of #logContainer, oldest first (the level of each entry)
    progressBar,      \* the percentage the progress handler wrote last ("" before any)
    server,           \* the worker's task list (SyncSpec)
    tabShown,         \* whether the tasks tab is the active tab
    last,             \* the handler that ran last and what it did (history)
    commands,         \* POST /api/tasks/<id>/<action> requests not yet resolved
    detailReqs,       \* GET /api/tasks/<id> requests not yet resolved
    selectedArticles, \* CNKIApp.selectedArticles: the ids of the Set, in insertion order
    currentArticles,  \* CNKIApp.currentArticles: the ids of the loaded page, or NoList
    currentPage,      \* CNKIApp.currentPage
    articleReqs,      \* GET /api/articles requests not yet resolved (the page asked for)
    downloads,        \* POST /api/articles/download requests not yet resolved
    dlInflight,       \* GET /api/download/tasks requests not yet resolved
    downloadTasksList, \* the cards in #downloadTasksList (ids of the download tasks)
    articlesList,     \* the cards in #articlesList (ids of the articles), in order
    totalPages,       \* CNKIApp.totalPages
    pagination,       \* the links in #pagination: previous, the page indices, next
    keywordFilter,    \* #keywordFilter: the keywords offered and the value selected
    articleSearch,    \* the text in #articleSearch
    literatureTypeFilter, \* the value selected in #literatureTypeFilter
    statsPending,     \* whether some GET /api/literature/stats has not resolved
    literatureStats,  \* the #literatureStats panel: "initial", "shown" or "hidden"
    appended,         \* the addLog calls LogSpec has made (history)
    keywordsField,    \* the text in #keywords, character by character
    searchReqs,       \* POST /api/keyword/scrape requests not yet resolved (the body)
    historyReqs,      \* GET /api/search/history requests not yet resolved
    searchHistoryList, \* the entries in #searchHistoryList (ids of the searches)
    typeOptions,      \* the values of the options of #literatureType, in order
    typeValue,        \* the value of #literatureType ("": no option is selected)
    typesReqs,        \* GET /api/literature/types requests not yet resolved
    dlCommands        \* requests of the download panel not yet resolved (start, stop, details)

\* The state of the task commands and the state of the article panel.
cmdVars == <<commands, detailReqs>>
artVars ==
    <<selectedArticles, currentArticles, currentPage, articleReqs, downloads, dlInflight,
      downloadTasksList, articlesList, totalPages>>

\* The controls and panels around the article list, and the history of LogSpec.
pageVars ==
    <<pagination, keywordFilter, articleSearch, literatureTypeFilter, statsPending,
      literatureStats>>
logVars == <<appended>>

\* The search form, its requests and the search history panel.
searchVars ==
    <<keywordsField, searchReqs, historyReqs, searchHistoryList, typeOptions, typeValue,
      typesReqs>>

\* The requests of the buttons of the download panel.
dlVars == <<dlCommands>>

vars ==
    <<tasks, displayed, stats, refreshInterval, timers, inflight, log, progressBar, server,
      tabShown, last, cmdVars, artVars, pageVars, logVars, searchVars, dlVars>>

\* Mutant of autoRefreshEnabled: the flag constructed false.
AutoRefreshDisabled == FALSE

\* TaskManager.autoRefreshEnabled: set true by the constructor, assigned nowhere else.
autoRefreshEnabled == TRUE

Task(i, s, c) == [id |-> i, status |-> s, can_resume |-> c]

\* ----------------------------------------------------------- pure helpers

\* updateTaskStats: one pass over the collection, counting the statuses that
\* are own keys of the counter object.
RECURSIVE StatsFold(_, _)
StatsFold(ts, st) ==
    IF ts = <<>> THEN st
    ELSE StatsFold(Tail(ts),
                   IF Head(ts).status \in DOMAIN st
                   THEN [st EXCEPT ![Head(ts).status] = @ + 1]
                   ELSE st)

\* Mutant of UpdateTaskStats: counting on from the counters already shown.
UpdateTaskStatsCarry(ts) == StatsFold(ts, stats)

UpdateTaskStats(ts) ==
    StatsFold(ts, [running |-> 0, paused |-> 0, completed |-> 0, failed |-> 0])

\* Mutant of AddLog: the entry is not appended.
AddLogSilent(lg, level) == lg

\* Mutant of AddLog: no entry is ever dropped.
AddLogUnbounded(lg, level) == Append(lg, level)

\* addLog: append the entry, then drop the oldest one when more than 100 remain.
AddLog(lg, level) ==
    LET a == Append(lg, level)
    IN  IF Len(a) > LogCap THEN Tail(a) ELSE a

RemoveAt(s, i) == SubSeq(s, 1, i - 1) \o SubSeq(s, i + 1, Len(s))

\* setInterval: a handle no live timer has.
SetInterval(live) == CHOOSE t \in 1..(Cardinality(live) + 1) : t \notin live

\* Mutant of ClearCurrent: the running timer is left alone.
ClearNothing(live, handle) == live

\* clearInterval(refreshInterval) when the field is truthy.
ClearCurrent(live, handle) == IF handle # Null THEN live \ {handle} ELSE live

\* A request issued before a stop or a start that has run since belongs to a
\* cancelled polling generation (history only: the code keeps no such mark).
MarkStale(reqs) == [i \in 1..Len(reqs) |-> [reqs[i] EXCEPT !.stale = TRUE]]

NewRequest == [answered |-> FALSE, success |-> FALSE, tasks |-> Undefined, stale |-> FALSE]

\* The record of the handler that ran last:
\*   op        the handler
\*   outcome   of a poll: "ok", "malformed" (success without a list), "rejected"
\*             (success = false), "throw" (fetch or json() rejected)
\*   stale     the poll was in flight when auto-refresh was stopped or started
\*   changed   the poll changed tasks or the counters
\*   dropped   the poll removed a task the collection held
\*   reopened  the poll moved a completed or failed task to another status
\*   note      "restart" / "start", "stop" / "noop": whether a timer was running
\*             when auto-refresh was started or stopped; "repeat": the push event
\*             is the one delivered just before; "late": the poll was issued
\*             before the poll that resolved, with a snapshot, in the step before
\*   index     the place of the poll among those in flight, oldest first, when
\*             it resolved (index - 1 polls issued before it were in flight)
\*   resp      the task list of the poll's response
\*   query     the filters of the article request that resolved
\*   late      the article request that resolved was issued before the one that
\*             resolved, with a page, in the step before
Did(op) ==
    [op |-> op, outcome |-> "", stale |-> FALSE, changed |-> FALSE, dropped |-> FALSE,
     reopened |-> FALSE, note |-> "", index |-> 0, resp |-> <<>>,
     query |-> [search |-> "", keyword |-> "", literature_type |-> ""], late |-> FALSE]

Terminal == {"completed", "failed"}

\* Whether list `new` has no record for a task that `old` held (with no list
\* in this.tasks no task was held).
Drops(old, new) ==
    /\ old # Undefined
    /\ \E k \in 1..Len(old) : \A j \in 1..Len(new) : new[j].id # old[k].id

\* Whether list `new` gives another status to a completed or failed task of `old`.
Reopens(old, new) ==
    \E k \in 1..Len(old) : \E j \in 1..Len(new) :
        /\ old[k].status \in Terminal
        /\ new[j].id = old[k].id
        /\ new[j].status # old[k].status

\* ------------------------------------------------------------ environment

\* The worker creates a task.
ServerCreate(maxT) ==
    /\ Len(server) < maxT
    /\ server' = Append(server, Task(Len(server) + 1, "pending", FALSE))
    /\ UNCHANGED <<cmdVars, artVars, pageVars, logVars, searchVars, dlVars,
                   tasks, displayed, stats, refreshInterval, timers, inflight, log,
                   progressBar, tabShown, last>>

\* The lifecycle of a task on the worker.
NextStatus(t) ==
    CASE t.status = "pending" -> {Task(t.id, "running", FALSE)}
      [] t.status = "running" -> {Task(t.id, "paused", TRUE), Task(t.id, "paused", FALSE),
                                  Task(t.id, "completed", FALSE), Task(t.id, "failed", FALSE)}
      [] t.status = "paused"  -> {Task(t.id, "running", FALSE), Task(t.id, "failed", FALSE)}
      [] OTHER                -> {}

ServerAdvance ==
    /\ \E i \in 1..Len(server) : \E t \in NextStatus(server[i]) :
           server' = [server EXCEPT ![i] = t]
    /\ UNCHANGED <<cmdVars, artVars, pageVars, logVars, searchVars, dlVars,
                   tasks, displayed, stats, refreshInterval, timers, inflight, log,
                   progressBar, tabShown, last>>

\* The worker answers a poll with the list it holds.
ServerRespond ==
    /\ \E i \in 1..Len(inflight) :
           /\ ~inflight[i].answered
           /\ inflight' = [inflight EXCEPT ![i] = [answered |-> TRUE, success |-> TRUE,
                                                    tasks |-> server, stale |-> @.stale]]
    /\ UNCHANGED <<cmdVars, artVars, pageVars, logVars, searchVars, dlVars,
                   tasks, displayed, stats, refreshInterval, timers, log, progressBar, server,
                   tabShown, last>>

\* The task records a list may hold for task id i.
TaskRecords(i) ==
    {Task(i, s, FALSE) : s \in Statuses} \cup {Task(i, "paused", TRUE)}

\* The task lists over the ids 1..n, in id order.
RECURSIVE TaskLists(_)
TaskLists(n) ==
    IF n = 0 THEN {<<>>}
    ELSE TaskLists(n - 1) \cup {Append(l, t) : l \in TaskLists(n - 1), t \in TaskRecords(n)}

\* Every body GET /api/tasks may come back with: a task list, a refusal, or
\* success without the list.
Responses(n) ==
    [success : {TRUE}, tasks : TaskLists(n)]
        \cup { [success |-> TRUE,  tasks |-> Undefined],
               [success |-> FALSE, tasks |-> Undefined] }

\* ------------------------------------------------------------ TaskManager

\* loadTasks up to its first await: the request leaves.
IssueLoadTasks(reqs) == Append(reqs, NewRequest)

LoadTasks ==
    /\ Len(inflight) < MaxInflight
    /\ inflight' = IssueLoadTasks(inflight)
    /\ last' = Did("loadTasks")
    /\ UNCHANGED <<cmdVars, artVars, pageVars, logVars, searchVars, dlVars,
                   tasks, displayed, stats, refreshInterval, timers, log, progressBar, server,
                   tabShown>>

\* Mutant of Ingest: the response is dropped.
IngestKeep(old, result) == old

\* Mutant of Ingest: the response is merged into the collection, the tasks it
\* omits staying behind.
IngestMerge(old, result) ==
    result.tasks \o SelectSeq(old, LAMBDA t : \A j \in 1..Len(result.tasks) :
                                                  result.tasks[j].id # t.id)

\* Mutant of Ingest: a task the collection holds as completed or failed keeps
\* its record.
IngestKeepTerminal(old, result) ==
    [j \in 1..Len(result.tasks) |->
        IF \E k \in 1..Len(old) : old[k].id = result.tasks[j].id /\ old[k].status \in Terminal
        THEN CHOOSE t \in {old[k] : k \in 1..Len(old)} : t.id = result.tasks[j].id
        ELSE result.tasks[j]]

\* loadTasks after the awaits, the body having success = true: this.tasks = result.tasks.
Ingest(old, result) == result.tasks

\* displayTasks: one card per task, or the "no tasks" notice when the list is
\* missing or empty.
DisplayTasks(ts) == IF ts = Undefined THEN <<>> ELSE ts

\* loadTasks after the awaits: request i resolves with body r.
LoadTasksResolve(i, r) ==
    /\ inflight' = RemoveAt(inflight, i)
    /\ IF r.success
       THEN /\ tasks' = Ingest(tasks, r)
            /\ displayed' = DisplayTasks(tasks')
            /\ IF tasks' = Undefined
               THEN \* displayTasks shows the empty list; updateTaskStats throws a
                    \* TypeError on undefined.forEach, which loadTasks catches
                    /\ Len(log) < MaxLog
                    /\ stats' = stats
                    /\ log' = AddLog(log, "error")
               ELSE /\ stats' = UpdateTaskStats(tasks')
                    /\ log' = log
       ELSE /\ Len(log) < MaxLog
            /\ tasks' = tasks
            /\ displayed' = displayed
            /\ stats' = stats
            /\ log' = AddLog(log, "error")
    /\ last' = [Did("loadTasks.resolve") EXCEPT
                    !.outcome  = IF ~r.success THEN "rejected"
                                 ELSE IF r.tasks = Undefined THEN "malformed" ELSE "ok",
                    !.stale    = inflight[i].stale,
                    !.changed  = (tasks' # tasks \/ stats' # stats \/ displayed' # displayed),
                    !.dropped  = Drops(tasks, tasks'),
                    !.reopened = Reopens(tasks, tasks'),
                    !.note     = IF last.op = "loadTasks.resolve" /\ last.outcome = "ok"
                                    /\ i < last.index
                                 THEN "late" ELSE "",
                    !.index    = i,
                    !.resp     = r.tasks]
    /\ UNCHANGED <<cmdVars, artVars, pageVars, logVars, searchVars, dlVars,
                   refreshInterval, timers, progressBar, server, tabShown>>

\* The bodies the worker of Spec and the worker of PollSpec answer with.
SpecResponses == Responses(MaxTasks)
PollResponses == Responses(MaxListLen)

\* A poll resolves with any body of the set.
ResolveAny(responses) ==
    \E i \in 1..Len(inflight) : \E r \in responses : LoadTasksResolve(i, r)

\* A poll of SyncSpec resolves with the worker's answer.
ResolveAnswered ==
    \E i \in 1..Len(inflight) :
        /\ inflight[i].answered
        /\ LoadTasksResolve(i, [success |-> inflight[i].success, tasks |-> inflight[i].tasks])

\* loadTasks when fetch or response.json() rejects.
LoadTasksThrow ==
    \E i \in 1..Len(inflight) :
        /\ Len(log) < MaxLog
        /\ inflight' = RemoveAt(inflight, i)
        /\ log' = AddLog(log, "error")
        /\ last' = [Did("loadTasks.resolve") EXCEPT
                        !.outcome = "throw", !.stale = inflight[i].stale, !.index = i]
        /\ UNCHANGED <<cmdVars, artVars, pageVars, logVars, searchVars, dlVars,
                       tasks, displayed, stats, refreshInterval, timers, progressBar, server,
                       tabShown>>

StartAutoRefresh ==
    LET kept == ClearCurrent(timers, refreshInterval) IN
    /\ Cardinality(kept) < MaxTimers
    /\ timers' = kept \cup {SetInterval(kept)}
    /\ refreshInterval' = SetInterval(kept)
    /\ inflight' = MarkStale(inflight)
    /\ last' = [Did("startAutoRefresh") EXCEPT
                    !.note = IF refreshInterval # Null THEN "restart" ELSE "start"]
    /\ UNCHANGED <<cmdVars, artVars, pageVars, logVars, searchVars, dlVars,
                   tasks, displayed, stats, log, progressBar, server, tabShown>>

StopAutoRefresh ==
    /\ timers' = ClearCurrent(timers, refreshInterval)
    /\ refreshInterval' = Null
    /\ inflight' = MarkStale(inflight)
    /\ last' = [Did("stopAutoRefresh") EXCEPT
                    !.note = IF refreshInterval # Null THEN "stop" ELSE "noop"]
    /\ UNCHANGED <<cmdVars, artVars, pageVars, logVars, searchVars, dlVars,
                   tasks, displayed, stats, log, progressBar, server, tabShown>>

\* The callback of a live interval timer.
Tick ==
    /\ \E t \in timers :
           /\ autoRefreshEnabled
           /\ Len(inflight) < MaxInflight
           /\ inflight' = IssueLoadTasks(inflight)
    /\ last' = Did("tick")
    /\ UNCHANGED <<cmdVars, artVars, pageVars, logVars, searchVars, dlVars,
                   tasks, displayed, stats, refreshInterval, timers, log, progressBar, server,
                   tabShown>>

\* init: the listener of shown.bs.tab on #tasks-tab: loadTasks() up to its
\* first await, then startAutoRefresh(), so the poll of the listener is in
\* flight when auto-refresh is started.
TabShown ==
    /\ ~tabShown
    /\ tabShown' = TRUE
    /\ Len(inflight) < MaxInflight
    /\ Cardinality(ClearCurrent(timers, refreshInterval)) < MaxTimers
    /\ inflight' = MarkStale(IssueLoadTasks(inflight))
    /\ timers' = LET kept == ClearCurrent(timers, refreshInterval)
                  IN  kept \cup {SetInterval(kept)}
    /\ refreshInterval' = SetInterval(ClearCurrent(timers, refreshInterval))
    /\ last' = [Did("shown") EXCEPT
                    !.note = IF refreshInterval # Null THEN "restart" ELSE "start"]
    /\ UNCHANGED <<cmdVars, artVars, pageVars, logVars, searchVars, dlVars,
                   tasks, displayed, stats, log, progressBar, server>>

\* init: the listener of hidden.bs.tab on #tasks-tab.
TabHidden ==
    /\ tabShown
    /\ tabShown' = FALSE
    /\ timers' = ClearCurrent(timers, refreshInterval)
    /\ refreshInterval' = Null
    /\ inflight' = MarkStale(inflight)
    /\ last' = [Did("hidden") EXCEPT
                    !.note = IF refreshInterval # Null THEN "stop" ELSE "noop"]
    /\ UNCHANGED <<cmdVars, artVars, pageVars, logVars, searchVars, dlVars,
                   tasks, displayed, stats, log, progressBar, server>>

\* ------------------------------------------------- TaskManager: commands

CommandKinds == {"pause", "resume", "stop"}

\* The status tasks holds for task id ("none": no record of it, or no list).
KnownStatus(ts, id) ==
    IF ts = Undefined \/ ~\E k \in 1..Len(ts) : ts[k].id = id
    THEN "none"
    ELSE (CHOOSE t \in {ts[k] : k \in 1..Len(ts)} : t.id = id).status

\* createTaskActions: the buttons on the card of task t.
Offered(kind, t) ==
    CASE kind = "pause"  -> t.status = "running"
      [] kind = "resume" -> t.status = "paused" /\ t.can_resume
      [] kind = "stop"   -> t.status = "running" \/ (t.status = "paused" /\ t.can_resume)
      [] OTHER           -> FALSE

\* pauseAllTasks, resumeAllTasks, stopAllTasks: the filter over this.tasks.
BulkFilter(kind, t) ==
    CASE kind = "pause"  -> t.status = "running"
      [] kind = "resume" -> t.status = "paused" /\ t.can_resume
      [] kind = "stop"   -> t.status \in {"running", "paused"}
      [] OTHER           -> FALSE

\* pauseTask, resumeTask, stopTask up to the first await: the request leaves.
\* `known` is the status tasks holds for the task at that moment (history);
\* `rest` holds the ids the loop that awaits this command has yet to visit
\* (empty for the command of a button).
SendCommand(reqs, kind, id, bulk, rest) ==
    Append(reqs, [kind |-> kind, id |-> id, bulk |-> bulk, known |-> KnownStatus(tasks, id),
                  rest |-> rest])

\* Mutant of CommandTasks: the command writes the status it asked for into
\* the collection without waiting for a poll.
CommandTasksOptimistic(ts, cmd, outcome) ==
    IF ts = Undefined THEN ts
    ELSE [k \in 1..Len(ts) |->
            IF ts[k].id = cmd.id
            THEN [ts[k] EXCEPT !.status = CASE cmd.kind = "pause"  -> "paused"
                                            [] cmd.kind = "resume" -> "running"
                                            [] OTHER               -> "failed"]
            ELSE ts[k]]

\* What the continuation of pauseTask, resumeTask or stopTask does to
\* this.tasks, whatever the outcome: nothing (on success it calls loadTasks).
CommandTasks(ts, cmd, outcome) == ts

\* A click on a button of a task card.
ClickCommand(kind) ==
    \E k \in 1..Len(displayed) :
        /\ Offered(kind, displayed[k])
        /\ Len(commands) < MaxCommands
        /\ commands' = SendCommand(commands, kind, displayed[k].id, FALSE, <<>>)
        /\ last' = [Did(kind \o "Task") EXCEPT !.note = KnownStatus(tasks, displayed[k].id)]
        /\ UNCHANGED <<tasks, displayed, stats, refreshInterval, timers, inflight, log,
                       progressBar, server, tabShown, detailReqs, artVars, pageVars, logVars,
                       searchVars, dlVars>>

\* Mutant of BulkRest: the loop ends after its first task.
BulkRestNone(chosen) == <<>>

\* `for (const task of activeTasks)`: the ids the loop still has to visit
\* after the first, in the order of the filtered array.
BulkRest(chosen) == [j \in 1..(Len(chosen) - 1) |-> chosen[j + 1].id]

\* The answers of the user to the confirm() of stopAllTasks; the other two
\* operations ask nothing.
Confirms(kind) == IF kind = "stop" THEN BOOLEAN ELSE {TRUE}

\* pauseAllTasks, resumeAllTasks, stopAllTasks up to the first await: with
\* no list in tasks the filter throws; with nothing to do a warning is
\* logged; stopAllTasks returns when the user declines; otherwise the command
\* of the first task leaves and the loop waits for it, the ids of the others
\* kept with it.
BulkCommand(kind) ==
    LET chosen == SelectSeq(tasks, LAMBDA t : BulkFilter(kind, t)) IN
    /\ IF tasks = Undefined
       THEN /\ UNCHANGED <<commands, log>>
            /\ last' = [Did(kind \o "AllTasks") EXCEPT !.note = "thrown"]
       ELSE IF chosen = <<>>
       THEN /\ Len(log) < MaxLog
            /\ log' = AddLog(log, "warning")
            /\ UNCHANGED commands
            /\ last' = [Did(kind \o "AllTasks") EXCEPT !.note = "none"]
       ELSE \E confirmed \in Confirms(kind) :
            IF confirmed
            THEN /\ Len(commands) < MaxCommands
                 /\ commands' = SendCommand(commands, kind, chosen[1].id, TRUE,
                                            BulkRest(chosen))
                 /\ log' = log
                 /\ last' = [Did(kind \o "AllTasks") EXCEPT !.note = chosen[1].status]
            ELSE /\ UNCHANGED <<commands, log>>
                 /\ last' = [Did(kind \o "AllTasks") EXCEPT !.note = "declined"]
    /\ UNCHANGED <<tasks, displayed, stats, refreshInterval, timers, inflight, progressBar,
                   server, tabShown, detailReqs, artVars, pageVars, logVars, searchVars, dlVars>>

\* pauseTask, resumeTask, stopTask after the awaits: request i resolves with
\* success = true ("ok"), with success = false ("rejected"), or fetch or
\* json() rejects ("throw").  When the command came from a pauseAll/resumeAll/
\* stopAll loop, the loop goes on to its next task in the same turn.
CommandResolve(i, outcome) ==
    LET cmd  == commands[i]
        rest == RemoveAt(commands, i)
    IN
    /\ Len(log) < MaxLog
    /\ log' = AddLog(log, IF outcome = "ok" THEN "success" ELSE "error")
    /\ tasks' = CommandTasks(tasks, cmd, outcome)
    /\ IF outcome = "ok"
       THEN /\ Len(inflight) < MaxInflight
            /\ inflight' = IssueLoadTasks(inflight)
       ELSE inflight' = inflight
    /\ commands' = IF cmd.rest # <<>>
                   THEN SendCommand(rest, cmd.kind, Head(cmd.rest), TRUE, Tail(cmd.rest))
                   ELSE rest
    /\ last' = [Did(cmd.kind \o "Task.resolve") EXCEPT
                    !.outcome = outcome,
                    !.note = IF cmd.rest # <<>>
                             THEN KnownStatus(tasks, Head(cmd.rest)) ELSE ""]
    /\ UNCHANGED <<displayed, stats, refreshInterval, timers, progressBar, server, tabShown,
                   detailReqs, artVars, pageVars, logVars, searchVars, dlVars>>

CommandResolves ==
    \E i \in 1..Len(commands) : \E outcome \in {"ok", "rejected", "throw"} :
        CommandResolve(i, outcome)

\* viewTaskDetails up to the first await, for any id: the details button of
\* a task card passes the id of its task.
ViewTaskDetails ==
    /\ detailReqs < MaxDetailReqs
    /\ detailReqs' = detailReqs + 1
    /\ last' = Did("viewTaskDetails")
    /\ UNCHANGED <<tasks, displayed, stats, refreshInterval, timers, inflight, log,
                   progressBar, server, tabShown, commands, artVars, pageVars, logVars,
                   searchVars, dlVars>>

\* viewTaskDetails after the awaits: with the task ("ok") the details are
\* shown in an alert; with success = false ("rejected"), with success and no
\* task ("malformed": reading task.id throws) or when fetch or json() rejects
\* ("throw"), one error entry is logged.
ViewTaskDetailsResolve(outcome) ==
    /\ detailReqs > 0
    /\ detailReqs' = detailReqs - 1
    /\ IF outcome = "ok"
       THEN log' = log
       ELSE /\ Len(log) < MaxLog
            /\ log' = AddLog(log, "error")
    /\ last' = [Did("viewTaskDetails.resolve") EXCEPT !.outcome = outcome]
    /\ UNCHANGED <<tasks, displayed, stats, refreshInterval, timers, inflight,
                   progressBar, server, tabShown, commands, artVars, pageVars, logVars,
                   searchVars, dlVars>>

ViewTaskDetailsResolves ==
    \E outcome \in {"ok", "malformed", "rejected", "throw"} : ViewTaskDetailsResolve(outcome)

\* --------------------------------------------------------- ArticleManager
\* An article is its id and its keyword: a body lists the ids in `articles`
\* and, in the same order, the keyword of each article in `keywords`.  No
\* handler modelled here reads another field.

ArticleIds == 1..MaxArticles

\* The value of `result.articles` or `result.data` when the body has no such
\* field: no id list holds it (ids are >= 1).
NoList == <<0>>

Members(seq) == {seq[k] : k \in 1..Len(seq)}

\* The id lists over 1..n, in id order.
RECURSIVE IdLists(_)
IdLists(n) ==
    IF n = 0 THEN {<<>>}
    ELSE IdLists(n - 1) \cup {Append(l, n) : l \in IdLists(n - 1)}

\* Mutant of TotalPages: the quotient rounded down.
TotalPagesFloor(total, per_page) == total \div per_page

\* Math.ceil(total / per_page) for a total >= 0 and a per_page > 0.
TotalPages(total, per_page) == (total + per_page - 1) \div per_page

\* The totals a body of GET /api/articles reports: one page, or one more.
ArticleTotals == {MaxArticles, ArticlesPerPage + MaxArticles}

\* The keywords an article may carry ("": none), and the one the worker of
\* ArticleSpec, SelectSpec and PageSpec stores with each article.
Keywords == {"", "k1", "k2"}
KeywordOf(id) == IF id % 2 = 1 THEN "k1" ELSE ""
KeywordsOf(ids) == [k \in 1..Len(ids) |-> KeywordOf(ids[k])]

\* A body of GET /api/articles with success = true.
ArticleBody(ids, kws, page, total) ==
    [success |-> TRUE, articles |-> ids, keywords |-> kws, page |-> page, total |-> total,
     per_page |-> ArticlesPerPage]

\* Every body GET /api/articles may come back with: a page, success without
\* the list, or a refusal.
ArticleResponses ==
    {ArticleBody(l, KeywordsOf(l), p, t) :
        l \in IdLists(MaxArticles), p \in 1..MaxPage, t \in ArticleTotals}
        \cup { [success |-> TRUE, articles |-> NoList, keywords |-> <<>>, page |-> 1,
                total |-> MaxArticles, per_page |-> ArticlesPerPage],
               [success |-> FALSE, articles |-> NoList, keywords |-> <<>>, page |-> 1,
                total |-> 0, per_page |-> ArticlesPerPage] }

\* The bodies of PageSpec: an empty or a full page, of any page number and total.
PageResponses ==
    {ArticleBody(l, KeywordsOf(l), p, t) :
        l \in {<<>>, [k \in 1..MaxArticles |-> k]}, p \in 1..MaxPageNo, t \in 0..MaxTotal}

\* The bodies of FilterSpec: a page whose articles carry any keywords.
FacetResponses ==
    UNION { {ArticleBody(l, kws, p, t) :
                kws \in [1..Len(l) -> Keywords], p \in 1..MaxPage, t \in ArticleTotals} :
            l \in IdLists(MaxArticles) }

\* Set.prototype.add, delete: a Set keeps its members in insertion order.
SetAdd(sel, id) == IF id \in Members(sel) THEN sel ELSE Append(sel, id)
SetDelete(sel, id) == SelectSeq(sel, LAMBDA x : x # id)

\* Mutant of Toggle: the id is added, never removed.
ToggleAddOnly(sel, id) == SetAdd(sel, id)

\* toggleSelection: delete the id when the Set has it, add it otherwise.
Toggle(sel, id) == IF id \in Members(sel) THEN SetDelete(sel, id) ELSE SetAdd(sel, id)

\* Mutant of SelectAllIds: the selection becomes the ids of the page.
SelectAllReplace(sel, page) == page

\* selectAll: add the id of every article of the loaded page.
RECURSIVE SelectAllIds(_, _)
SelectAllIds(sel, page) ==
    IF page = <<>> THEN sel ELSE SelectAllIds(SetAdd(sel, Head(page)), Tail(page))

\* displayArticles: the cards of the given articles replace those shown; with
\* no list, `articles.length` throws before the container is written.
DisplayArticles(shown, articles) == IF articles = NoList THEN shown ELSE articles

\* Mutant of PageKeywords: the keyword of every article, as listed.
PageKeywordsRaw(kws) == kws

\* [...new Set(result.articles.map(a => a.keyword).filter(k => k))]: the
\* truthy keywords, each once, in the order they first occur.
RECURSIVE PageKeywords(_)
PageKeywords(kws) ==
    IF kws = <<>> THEN <<>>
    ELSE LET k == kws[Len(kws)]
             rest == PageKeywords(SubSeq(kws, 1, Len(kws) - 1))
         IN  IF k = "" THEN rest ELSE SetAdd(rest, k)

\* updateKeywordFilter: the "all keywords" option (value "") followed by one
\* option per keyword; the option equal to the value selected before stays
\* selected, otherwise the first option is.
UpdateKeywordFilter(select, keywords) ==
    [options |-> <<"">> \o keywords,
     value   |-> IF select.value \in Members(keywords) THEN select.value ELSE ""]

Max(a, b) == IF a >= b THEN a ELSE b
Min(a, b) == IF a <= b THEN a ELSE b

\* Mutant of PageWindow: the five indices around the page, not clamped.
PageWindowUnclamped(page, total) == [k \in 1..5 |-> page - 3 + k]

\* updatePagination, the page indices: none with at most one page, otherwise
\* startPage..endPage.
PageWindow(page, total) ==
    LET startPage == Max(1, page - 2)
        endPage   == Min(total, page + 2)
    IN  IF total <= 1 THEN <<>>
        ELSE [k \in 1..(endPage - startPage + 1) |-> startPage + k - 1]

\* updatePagination: the page each link asks for (Null: no such link).
UpdatePagination(page, total) ==
    [prev  |-> IF total > 1 /\ page > 1 THEN page - 1 ELSE Null,
     pages |-> PageWindow(page, total),
     next  |-> IF total > 1 /\ page < total THEN page + 1 ELSE Null]

\* Mutant of LoadArticlesSelection: the ids that are not on the new page are
\* dropped from the selection.
LoadArticlesSelectionOnPage(sel, r) ==
    IF r.articles = NoList THEN sel ELSE SelectSeq(sel, LAMBDA x : x \in Members(r.articles))

\* What loadArticles does to selectedArticles, whatever the body: nothing (it
\* only reads the Set, to mark the cards).
LoadArticlesSelection(sel, r) == sel

\* The query of GET /api/articles.
ArticleRequest(page, search, keyword, literatureType) ==
    [page |-> page, per_page |-> ArticlesPerPage, search |-> search, keyword |-> keyword,
     literature_type |-> literatureType]

\* loadArticles up to the first await, called with a page and a search text
\* while fewer than n requests are in flight; the filters travel in the URL
\* only.
LoadArticlesWithin(n) ==
    \E p \in 1..MaxPage : \E f \in {"", "F"} :
        /\ Len(articleReqs) < n
        /\ articleReqs' = Append(articleReqs, ArticleRequest(p, f, "", ""))
        /\ last' = Did("loadArticles")
        /\ UNCHANGED <<tasks, displayed, stats, refreshInterval, timers, inflight, log,
                       progressBar, server, tabShown, cmdVars, pageVars, logVars, searchVars, dlVars,
                       selectedArticles, currentArticles, currentPage, downloads,
                       dlInflight, downloadTasksList, articlesList, totalPages>>

LoadArticles == LoadArticlesWithin(MaxArticleReqs)

\* Rapid page changes: a call of loadArticles while another is in flight.
LoadArticlesRacing == LoadArticlesWithin(MaxRacing)

\* A click on a link of #pagination: loadArticles(i), the filters left at
\* their defaults.
PageLink ==
    \E p \in (Members(pagination.pages) \cup {pagination.prev, pagination.next}) \ {Null} :
        /\ Len(articleReqs) < MaxArticleReqs
        /\ articleReqs' = Append(articleReqs, ArticleRequest(p, "", "", ""))
        /\ last' = [Did("loadArticles") EXCEPT !.note = "link"]
        /\ UNCHANGED <<tasks, displayed, stats, refreshInterval, timers, inflight, log,
                       progressBar, server, tabShown, cmdVars, pageVars, logVars, searchVars, dlVars,
                       selectedArticles, currentArticles, currentPage, downloads,
                       dlInflight, downloadTasksList, articlesList, totalPages>>

\* searchArticles: page 1 with the values of the three filter controls.
SearchArticles ==
    /\ Len(articleReqs) < MaxArticleReqs
    /\ articleReqs' = Append(articleReqs,
                             ArticleRequest(1, articleSearch, keywordFilter.value,
                                            literatureTypeFilter))
    /\ last' = Did("searchArticles")
    /\ UNCHANGED <<tasks, displayed, stats, refreshInterval, timers, inflight, log,
                   progressBar, server, tabShown, cmdVars, pageVars, logVars, searchVars, dlVars,
                   selectedArticles, currentArticles, currentPage, downloads,
                   dlInflight, downloadTasksList, articlesList, totalPages>>

\* The values of #literatureTypeFilter.
LiteratureTypes == {"", "journal"}

\* The user changes a filter.  The listeners bindEvents puts on #articleSearch
\* (Enter) and on #keywordFilter (change) call this.searchArticles(), which
\* CNKIApp does not define: the listener throws a TypeError and no request
\* leaves.  bindEvents puts no listener on #literatureTypeFilter.
FilterChange ==
    /\ \/ /\ \E v \in {"", "F"} \ {articleSearch} : articleSearch' = v
          /\ UNCHANGED <<keywordFilter, literatureTypeFilter>>
          /\ last' = [Did("filterChange") EXCEPT !.note = "search"]
       \/ /\ \E v \in Members(keywordFilter.options) \ {keywordFilter.value} :
                 keywordFilter' = [keywordFilter EXCEPT !.value = v]
          /\ UNCHANGED <<articleSearch, literatureTypeFilter>>
          /\ last' = [Did("filterChange") EXCEPT !.note = "keyword"]
       \/ /\ \E v \in LiteratureTypes \ {literatureTypeFilter} : literatureTypeFilter' = v
          /\ UNCHANGED <<articleSearch, keywordFilter>>
          /\ last' = [Did("filterChange") EXCEPT !.note = "literatureType"]
    /\ UNCHANGED <<tasks, displayed, stats, refreshInterval, timers, inflight, log,
                   progressBar, server, tabShown, cmdVars, artVars, logVars, searchVars, dlVars, pagination,
                   statsPending, literatureStats>>

\* Whether request i was issued before the request that resolved, with a
\* page, in the step before.
LateArticles(i) ==
    last.op = "loadArticles.resolve" /\ last.outcome = "ok" /\ i < last.index

\* Mutant of LoadArticlesApplies: a response that arrives after the response
\* to a later request is set aside.
LoadArticlesAppliesInOrder(i, r) == r.success /\ ~LateArticles(i)

\* `if (result.success)`: the only test loadArticles makes before it writes
\* the page of request i; the order of the requests plays no part.
LoadArticlesApplies(i, r) == r.success

\* loadArticles after the awaits: request i resolves with body r.  With
\* success and no list the three fields are assigned and displayArticles
\* throws, which the catch logs; with a list the cards, the pagination and the
\* keyword options are written and loadLiteratureStats sends its request.
LoadArticlesResolve(i, r) ==
    /\ articleReqs' = RemoveAt(articleReqs, i)
    /\ selectedArticles' = LoadArticlesSelection(selectedArticles, r)
    /\ IF LoadArticlesApplies(i, r)
       THEN /\ currentArticles' = r.articles
            /\ currentPage' = r.page
            /\ totalPages' = TotalPages(r.total, r.per_page)
            /\ articlesList' = DisplayArticles(articlesList, currentArticles')
            /\ IF r.articles = NoList
               THEN /\ Len(log) < MaxLog
                    /\ log' = AddLog(log, "error")
                    /\ UNCHANGED <<pagination, keywordFilter, statsPending>>
               ELSE /\ log' = log
                    /\ pagination' = UpdatePagination(currentPage', totalPages')
                    /\ keywordFilter' =
                           UpdateKeywordFilter(keywordFilter, PageKeywords(r.keywords))
                    /\ statsPending' = TRUE
       ELSE /\ Len(log) < MaxLog
            /\ log' = AddLog(log, "error")
            /\ UNCHANGED <<currentArticles, currentPage, totalPages, articlesList,
                           pagination, keywordFilter, statsPending>>
    /\ last' = [Did("loadArticles.resolve") EXCEPT
                    !.outcome = IF ~r.success THEN "rejected"
                                ELSE IF r.articles = NoList THEN "malformed" ELSE "ok",
                    !.note = IF r.success /\ currentPage > 1 /\ r.page = 1
                             THEN "return" ELSE "",
                    !.index = i,
                    !.late = LateArticles(i),
                    !.resp = r,
                    !.query = [search |-> articleReqs[i].search,
                               keyword |-> articleReqs[i].keyword,
                               literature_type |-> articleReqs[i].literature_type]]
    /\ UNCHANGED <<tasks, displayed, stats, refreshInterval, timers, inflight, progressBar,
                   server, tabShown, cmdVars, logVars, searchVars, dlVars, downloads, dlInflight,
                   downloadTasksList, articleSearch, literatureTypeFilter, literatureStats>>

\* loadArticles when fetch or response.json() rejects.
LoadArticlesThrow(i) ==
    /\ Len(log) < MaxLog
    /\ articleReqs' = RemoveAt(articleReqs, i)
    /\ log' = AddLog(log, "error")
    /\ last' = [Did("loadArticles.resolve") EXCEPT !.outcome = "throw"]
    /\ UNCHANGED <<tasks, displayed, stats, refreshInterval, timers, inflight, progressBar,
                   server, tabShown, cmdVars, pageVars, logVars, searchVars, dlVars, selectedArticles,
                   currentArticles, currentPage, downloads, dlInflight, downloadTasksList,
                   articlesList, totalPages>>

LoadArticlesResolves ==
    \E i \in 1..Len(articleReqs) :
        \/ \E r \in ArticleResponses : LoadArticlesResolve(i, r)
        \/ LoadArticlesThrow(i)

\* A request of PageSpec resolves.
PageResolves ==
    \E i \in 1..Len(articleReqs) : \E r \in PageResponses : LoadArticlesResolve(i, r)

\* A request of FilterSpec resolves.
FacetResolves ==
    \E i \in 1..Len(articleReqs) : \E r \in FacetResponses : LoadArticlesResolve(i, r)

\* What a failed loadLiteratureStats leaves in the log: nothing, both branches
\* write to console.error only.
StatsFailureLog(lg) == lg

\* loadLiteratureStats after the awaits.  The statistics fill the panel, an
\* empty list hides it; success without the list throws on stats.length, which
\* the catch reports like a rejected fetch.
LoadLiteratureStatsResolve ==
    \E outcome \in {"shown", "hidden", "malformed", "rejected", "throw"} :
        \E more \in BOOLEAN :
            /\ statsPending
            /\ statsPending' = more
            /\ literatureStats' = IF outcome \in {"shown", "hidden"}
                                  THEN outcome ELSE literatureStats
            /\ log' = IF outcome \in {"shown", "hidden"} THEN log ELSE StatsFailureLog(log)
            /\ last' = [Did("loadLiteratureStats.resolve") EXCEPT !.outcome = outcome]
            /\ UNCHANGED <<tasks, displayed, stats, refreshInterval, timers, inflight,
                           progressBar, server, tabShown, cmdVars, artVars, logVars, searchVars, dlVars,
                           pagination, keywordFilter, articleSearch, literatureTypeFilter>>

\* toggleSelection, called by the checkbox of a card.
ToggleSelection ==
    \E id \in Members(articlesList) :
        /\ selectedArticles' = Toggle(selectedArticles, id)
        /\ last' = [Did("toggleSelection") EXCEPT
                        !.note = IF id \in Members(selectedArticles) THEN "removed" ELSE "added"]
        /\ UNCHANGED <<tasks, displayed, stats, refreshInterval, timers, inflight, log,
                       progressBar, server, tabShown, cmdVars, pageVars, logVars, searchVars, dlVars,
                       currentArticles, currentPage,
                       articleReqs, downloads, dlInflight, downloadTasksList, articlesList,
                       totalPages>>

\* selectAll (with no list loaded, forEach throws before anything changes).
SelectAll ==
    /\ currentArticles # NoList
    /\ selectedArticles' = SelectAllIds(selectedArticles, currentArticles)
    /\ articlesList' = DisplayArticles(articlesList, currentArticles)
    /\ last' = Did("selectAll")
    /\ UNCHANGED <<tasks, displayed, stats, refreshInterval, timers, inflight, log,
                   progressBar, server, tabShown, cmdVars, pageVars, logVars, searchVars, dlVars,
                   currentArticles, currentPage,
                   articleReqs, downloads, dlInflight, downloadTasksList, totalPages>>

\* clearSelection, called by its button.
ClearSelection ==
    /\ selectedArticles' = <<>>
    /\ articlesList' = DisplayArticles(articlesList, currentArticles)
    /\ last' = Did("clearSelection")
    /\ UNCHANGED <<tasks, displayed, stats, refreshInterval, timers, inflight, log,
                   progressBar, server, tabShown, cmdVars, pageVars, logVars, searchVars, dlVars,
                   currentArticles, currentPage,
                   articleReqs, downloads, dlInflight, downloadTasksList, totalPages>>

\* ------------------------------------------- ArticleManager: downloads

\* parseInt of the value of the #maxWorkers input.
Workers == 1..MaxWorkers

\* Mutant of NothingSelected: the guard of downloadSelected is missing.
NothingSelectedNever(sel) == FALSE

\* downloadSelected: selectedArticles.size === 0.
NothingSelected(sel) == Len(sel) = 0

\* Mutant of SelectionAfterSend: the batch is taken out of the Set when the
\* request leaves.
SelectionClearedAtSend(sel) == <<>>

\* What downloadSelected does to selectedArticles before its first await:
\* nothing (Array.from copies the ids).
SelectionAfterSend(sel) == sel

\* Mutant of BulkSelection: the Set is cleared whatever the outcome.
BulkSelectionAlways(sel, outcome) == <<>>

\* What the continuation of downloadSelected does to selectedArticles:
\* clearSelection() in the success branch only.
BulkSelection(sel, outcome) == IF outcome = "ok" THEN <<>> ELSE sel

\* Mutant of SingleSelection: downloadSingle clears the Set as downloadSelected does.
SingleSelectionAsBulk(sel, outcome) == IF outcome = "ok" THEN <<>> ELSE sel

\* What the continuation of downloadSingle does to selectedArticles: nothing.
SingleSelection(sel, outcome) == sel

\* Mutant of DispatchRefresh: no request leaves.
DispatchNoRefresh(n) == n

\* downloadManager.loadTasks() up to its first await: one more
\* GET /api/download/tasks in flight.
DispatchRefresh(n) == n + 1

\* The body of POST /api/articles/download.
DownloadRequest(ids, workers, single) ==
    [article_ids |-> ids, max_workers |-> workers, single |-> single]

\* downloadSelected up to the first await.
DownloadSelected ==
    /\ IF NothingSelected(selectedArticles)
       THEN /\ Len(log) < MaxLog
            /\ log' = AddLog(log, "error")
            /\ UNCHANGED <<downloads, selectedArticles>>
            /\ last' = [Did("downloadSelected") EXCEPT !.note = "empty"]
       ELSE /\ Len(downloads) < MaxDownloads
            /\ \E w \in Workers :
                   downloads' = Append(downloads, DownloadRequest(selectedArticles, w, FALSE))
            /\ selectedArticles' = SelectionAfterSend(selectedArticles)
            /\ log' = log
            /\ last' = [Did("downloadSelected") EXCEPT !.note = "sent"]
    /\ UNCHANGED <<tasks, displayed, stats, refreshInterval, timers, inflight, progressBar,
                   server, tabShown, cmdVars, pageVars, logVars, searchVars, dlVars,
                   currentArticles, currentPage, articleReqs,
                   dlInflight, downloadTasksList, articlesList, totalPages>>

\* downloadSelected after the awaits: request i resolves "ok" (success = true),
\* "rejected" (success = false) or "throw" (fetch or json() rejects).  On
\* success: the info entry, clearSelection() (which throws in displayArticles
\* when no list is loaded, and the catch then logs), downloadManager.loadTasks()
\* and the click on #download-tab, which by itself changes nothing here: the
\* tab library, when the page loads one, answers it with hidden.bs.tab on the
\* tasks tab (TabHidden).
DownloadSelectedResolve(i, outcome) ==
    LET accepted == outcome = "ok"
        thrown   == accepted /\ currentArticles = NoList
        logged   == AddLog(log, IF accepted THEN "info" ELSE "error")
    IN
    /\ ~downloads[i].single
    /\ downloads' = RemoveAt(downloads, i)
    /\ selectedArticles' = BulkSelection(selectedArticles, outcome)
    /\ log' = IF thrown THEN AddLog(logged, "error") ELSE logged
    /\ Len(log') <= MaxLog
    /\ articlesList' = IF accepted THEN DisplayArticles(articlesList, currentArticles)
                       ELSE articlesList
    /\ IF accepted /\ ~thrown
       THEN /\ dlInflight < MaxInflight
            /\ dlInflight' = DispatchRefresh(dlInflight)
       ELSE dlInflight' = dlInflight
    /\ last' = [Did("downloadSelected.resolve") EXCEPT
                    !.outcome = outcome,
                    !.note = IF thrown THEN "thrown" ELSE ""]
    /\ UNCHANGED <<tasks, displayed, stats, refreshInterval, timers, inflight, progressBar,
                   server, tabShown, cmdVars, pageVars, logVars, searchVars, dlVars,
                   currentArticles, currentPage, articleReqs, downloadTasksList, totalPages>>

\* downloadSingle up to the first await, called by the button of a card.
DownloadSingle ==
    \E id \in Members(articlesList) :
        /\ Len(downloads) < MaxDownloads
        /\ downloads' = Append(downloads, DownloadRequest(<<id>>, 1, TRUE))
        /\ last' = [Did("downloadSingle") EXCEPT !.note = "sent"]
        /\ UNCHANGED <<tasks, displayed, stats, refreshInterval, timers, inflight, log,
                       progressBar, server, tabShown, cmdVars, pageVars, logVars, searchVars, dlVars, selectedArticles,
                       currentArticles, currentPage, articleReqs, dlInflight,
                       downloadTasksList, articlesList, totalPages>>

\* downloadSingle after the awaits.
DownloadSingleResolve(i, outcome) ==
    /\ downloads[i].single
    /\ Len(log) < MaxLog
    /\ downloads' = RemoveAt(downloads, i)
    /\ selectedArticles' = SingleSelection(selectedArticles, outcome)
    /\ log' = AddLog(log, IF outcome = "ok" THEN "info" ELSE "error")
    /\ IF outcome = "ok"
       THEN dlInflight < MaxInflight /\ dlInflight' = DispatchRefresh(dlInflight)
       ELSE dlInflight' = dlInflight
    /\ last' = [Did("downloadSingle.resolve") EXCEPT !.outcome = outcome]
    /\ UNCHANGED <<tasks, displayed, stats, refreshInterval, timers, inflight, progressBar,
                   server, tabShown, cmdVars, pageVars, logVars, searchVars, dlVars,
                   currentArticles, currentPage, articleReqs,
                   downloadTasksList, articlesList, totalPages>>

DownloadResolves ==
    \E i \in 1..Len(downloads) : \E outcome \in {"ok", "rejected", "throw"} :
        \/ DownloadSelectedResolve(i, outcome)
        \/ DownloadSingleResolve(i, outcome)

\* -------------------------------------------------------- DownloadManager

\* Every body GET /api/download/tasks may come back with: the download tasks,
\* success without the list, or a refusal.
DownloadResponses ==
    [success : {TRUE}, data : IdLists(MaxTasks)]
        \cup { [success |-> TRUE, data |-> NoList], [success |-> FALSE, data |-> NoList] }

\* DownloadManager.loadTasks after the awaits: the cards of result.data
\* replace those shown; with no list `tasks.length` throws, which the catch
\* logs like a refusal; "throw": fetch or json() rejects.
DownloadLoadTasksResolve(r, thrown) ==
    /\ dlInflight > 0
    /\ dlInflight' = dlInflight - 1
    /\ IF ~thrown /\ r.success /\ r.data # NoList
       THEN /\ downloadTasksList' = r.data
            /\ log' = log
       ELSE /\ Len(log) < MaxLog
            /\ downloadTasksList' = downloadTasksList
            /\ log' = AddLog(log, "error")
    /\ last' = [Did("downloadManager.loadTasks.resolve") EXCEPT
                    !.outcome = IF thrown THEN "throw"
                                ELSE IF ~r.success THEN "rejected"
                                ELSE IF r.data = NoList THEN "malformed" ELSE "ok"]
    /\ UNCHANGED <<tasks, displayed, stats, refreshInterval, timers, inflight, progressBar,
                   server, tabShown, cmdVars, pageVars, logVars, searchVars, dlVars,
                   selectedArticles, currentArticles, currentPage,
                   articleReqs, downloads, articlesList, totalPages>>

DownloadLoadTasksResolves ==
    \E r \in DownloadResponses : \E thrown \in BOOLEAN : DownloadLoadTasksResolve(r, thrown)

\* DownloadManager.loadTasks up to its first await, called by the page.
DownloadLoadTasks ==
    /\ dlInflight < MaxInflight
    /\ dlInflight' = DispatchRefresh(dlInflight)
    /\ last' = Did("downloadManager.loadTasks")
    /\ UNCHANGED <<tasks, displayed, stats, refreshInterval, timers, inflight, log,
                   progressBar, server, tabShown, cmdVars, pageVars, logVars, searchVars,
                   dlVars, selectedArticles, currentArticles, currentPage, articleReqs,
                   downloads, downloadTasksList, articlesList, totalPages>>

\* A request of the download panel: POST /api/download/start with the value
\* of #maxWorkers, POST /api/download/stop, or GET /api/download/task/<id>.
DlCommand(kind, workers, id) == [kind |-> kind, max_workers |-> workers, id |-> id]

\* startDownload up to the first await: the info entry, then the request.
StartDownload ==
    /\ Len(log) < MaxLog
    /\ Len(dlCommands) < MaxDlCommands
    /\ log' = AddLog(log, "info")
    /\ \E w \in Workers : dlCommands' = Append(dlCommands, DlCommand("start", w, Null))
    /\ last' = Did("startDownload")
    /\ UNCHANGED <<tasks, displayed, stats, refreshInterval, timers, inflight,
                   progressBar, server, tabShown, cmdVars, artVars, pageVars, logVars,
                   searchVars>>

\* stopDownload up to the first await.
StopDownload ==
    /\ Len(dlCommands) < MaxDlCommands
    /\ dlCommands' = Append(dlCommands, DlCommand("stop", Null, Null))
    /\ last' = Did("stopDownload")
    /\ UNCHANGED <<tasks, displayed, stats, refreshInterval, timers, inflight, log,
                   progressBar, server, tabShown, cmdVars, artVars, pageVars, logVars,
                   searchVars>>

\* DownloadManager.viewTaskDetails up to the first await, for any id: the
\* details button of a download card passes the id of its task.
DownloadViewTaskDetails ==
    \E id \in 1..MaxTasks :
        /\ Len(dlCommands) < MaxDlCommands
        /\ dlCommands' = Append(dlCommands, DlCommand("details", Null, id))
        /\ last' = Did("downloadManager.viewTaskDetails")
        /\ UNCHANGED <<tasks, displayed, stats, refreshInterval, timers, inflight, log,
                       progressBar, server, tabShown, cmdVars, artVars, pageVars, logVars,
                       searchVars>>

\* The level of the entry the continuation of a request of the download
\* panel logs ("": none).  "ok": success = true; "malformed": success = true
\* and no data; "rejected": success = false; "throw": fetch or json() rejects.
DlCommandLevel(kind, outcome) ==
    CASE outcome \in {"rejected", "throw"}         -> "error"
      [] kind = "details" /\ outcome = "malformed" -> "error"
      [] kind = "details"                          -> ""
      [] kind = "start"                            -> "success"
      [] OTHER                                     -> "info"

\* startDownload, stopDownload and viewTaskDetails after the awaits: the log
\* entry and, for an accepted start or stop, this.loadTasks().
DlCommandResolve(i, outcome) ==
    LET cmd      == dlCommands[i]
        level    == DlCommandLevel(cmd.kind, outcome)
        accepted == cmd.kind # "details" /\ outcome \in {"ok", "malformed"}
    IN
    /\ dlCommands' = RemoveAt(dlCommands, i)
    /\ IF level = ""
       THEN log' = log
       ELSE /\ Len(log) < MaxLog
            /\ log' = AddLog(log, level)
    /\ IF accepted
       THEN /\ dlInflight < MaxInflight
            /\ dlInflight' = DispatchRefresh(dlInflight)
       ELSE dlInflight' = dlInflight
    /\ last' = [Did(cmd.kind \o "Download.resolve") EXCEPT !.outcome = outcome]
    /\ UNCHANGED <<tasks, displayed, stats, refreshInterval, timers, inflight, progressBar,
                   server, tabShown, cmdVars, pageVars, logVars, searchVars,
                   selectedArticles, currentArticles, currentPage, articleReqs, downloads,
                   downloadTasksList, articlesList, totalPages>>

DlCommandResolves ==
    \E i \in 1..Len(dlCommands) : \E outcome \in {"ok", "malformed", "rejected", "throw"} :
        DlCommandResolve(i, outcome)

\* ------------------------------------------------------- SearchManager

\* The characters typed into #keywords.
Chars == {"a", " ", "\n"}

\* The texts of up to n characters.
RECURSIVE Texts(_)
Texts(n) ==
    IF n = 0 THEN {<<>>}
    ELSE Texts(n - 1) \cup {Append(t, ch) : t \in Texts(n - 1), ch \in Chars}

\* text.split('\n'): the pieces between the line feeds, the empty ones too.
RECURSIVE SplitLines(_)
SplitLines(text) ==
    IF \A k \in 1..Len(text) : text[k] # "\n"
    THEN <<text>>
    ELSE LET k == CHOOSE j \in 1..Len(text) :
                      text[j] = "\n" /\ \A h \in 1..(j - 1) : text[h] # "\n"
         IN  <<SubSeq(text, 1, k - 1)>> \o SplitLines(SubSeq(text, k + 1, Len(text)))

\* line.trim(): the white space at both ends removed.
RECURSIVE Trim(_)
Trim(line) ==
    IF line = <<>> THEN line
    ELSE IF Head(line) \in {" ", "\n"} THEN Trim(Tail(line))
    ELSE IF line[Len(line)] \in {" ", "\n"} THEN Trim(SubSeq(line, 1, Len(line) - 1))
    ELSE line

\* keywordsText.split('\n').filter(k => k.trim()): the lines whose trimmed
\* text is not empty, as typed.
KeywordLines(text) == SelectSeq(SplitLines(text), LAMBDA line : Trim(line) # <<>>)

\* parseInt of #resultCount.
ResultCounts == {10, 50}

\* The keys of the literature types the server lists.
SearchLiteratureTypes == {"all", "journal"}

\* A body of GET /api/literature/types without its list of types.
NoTypes == <<"undefined">>

\* The bodies of GET /api/literature/types: a list of type keys with the
\* default key ("": none of the list), success without the list, a refusal.
TypesResponses ==
    {[success |-> TRUE, types |-> t, default |-> d] :
         t \in {<<>>, <<"all">>, <<"all", "journal">>, NoTypes},
         d \in SearchLiteratureTypes \cup {""}}
        \cup {[success |-> FALSE, types |-> NoTypes, default |-> ""]}

\* The value of a select rewritten with these options: the option marked
\* selected (key === defaultType), else the first one, "" with no option.
SelectedOf(options, defaultType) ==
    IF options = <<>> THEN ""
    ELSE IF defaultType \in Members(options) THEN defaultType
    ELSE options[1]

\* loadLiteratureTypes up to its first await; the constructor calls it once.
LoadLiteratureTypes ==
    /\ typesReqs < MaxTypesReqs
    /\ typesReqs' = typesReqs + 1
    /\ last' = Did("loadLiteratureTypes")
    /\ UNCHANGED <<tasks, displayed, stats, refreshInterval, timers, inflight, log,
                   progressBar, server, tabShown, cmdVars, artVars, pageVars, logVars,
                   dlVars, keywordsField, searchReqs, historyReqs, searchHistoryList,
                   typeOptions, typeValue>>

\* loadLiteratureTypes after the awaits: with a list displayLiteratureTypes
\* rewrites the options of #literatureType; with success = false, with no
\* list (types.map throws) or when fetch or json() rejects, one error entry.
LoadLiteratureTypesResolve(r, thrown) ==
    LET shown == ~thrown /\ r.success /\ r.types # NoTypes IN
    /\ typesReqs > 0
    /\ typesReqs' = typesReqs - 1
    /\ IF shown
       THEN /\ typeOptions' = r.types
            /\ typeValue' = SelectedOf(r.types, r.default)
            /\ log' = log
       ELSE /\ Len(log) < MaxLog
            /\ UNCHANGED <<typeOptions, typeValue>>
            /\ log' = AddLog(log, "error")
    /\ last' = [Did("loadLiteratureTypes.resolve") EXCEPT
                    !.outcome = IF shown THEN "ok" ELSE IF thrown THEN "throw"
                                ELSE IF r.success THEN "malformed" ELSE "rejected"]
    /\ UNCHANGED <<tasks, displayed, stats, refreshInterval, timers, inflight,
                   progressBar, server, tabShown, cmdVars, artVars, pageVars, logVars,
                   dlVars, keywordsField, searchReqs, historyReqs, searchHistoryList>>

LoadLiteratureTypesResolves ==
    \E r \in TypesResponses : \E thrown \in BOOLEAN : LoadLiteratureTypesResolve(r, thrown)

\* The user picks another option of #literatureType.
PickLiteratureType ==
    \E v \in Members(typeOptions) \ {typeValue} :
        /\ typeValue' = v
        /\ last' = Did("pickLiteratureType")
        /\ UNCHANGED <<tasks, displayed, stats, refreshInterval, timers, inflight, log,
                       progressBar, server, tabShown, cmdVars, artVars, pageVars, logVars,
                       dlVars, keywordsField, searchReqs, historyReqs, searchHistoryList,
                       typeOptions, typesReqs>>

\* The body of POST /api/keyword/scrape.
SearchRequest(keywords, resultCount, literatureType) ==
    [keywords |-> keywords, result_count |-> resultCount, literature_type |-> literatureType]

\* The user edits #keywords.
TypeKeywords ==
    \E t \in Texts(MaxText) \ {keywordsField} :
        /\ keywordsField' = t
        /\ last' = Did("typeKeywords")
        /\ UNCHANGED <<tasks, displayed, stats, refreshInterval, timers, inflight, log,
                       progressBar, server, tabShown, cmdVars, artVars, pageVars, logVars,
                       dlVars, searchReqs, historyReqs, searchHistoryList, typeOptions,
                       typeValue, typesReqs>>

\* startKeywordSearch with startTask up to its first await: with no keyword
\* line one error entry; with a keyword and no selected option in
\* #literatureType, selectedOptions[0].text throws before startTask is
\* called; otherwise the info entry and the request.
StartKeywordSearch ==
    LET keywords == KeywordLines(keywordsField) IN
    /\ IF keywords = <<>>
       THEN /\ Len(log) < MaxLog
            /\ log' = AddLog(log, "error")
            /\ searchReqs' = searchReqs
            /\ last' = [Did("startKeywordSearch") EXCEPT !.note = "empty"]
       ELSE IF typeValue \notin Members(typeOptions)
       THEN /\ UNCHANGED <<log, searchReqs>>
            /\ last' = [Did("startKeywordSearch") EXCEPT !.note = "thrown"]
       ELSE /\ Len(log) < MaxLog
            /\ Len(searchReqs) < MaxSearchReqs
            /\ log' = AddLog(log, "info")
            /\ \E n \in ResultCounts :
                   searchReqs' = Append(searchReqs,
                       [url  |-> "/api/keyword/scrape",
                        data |-> SearchRequest(keywords, n, typeValue)])
            /\ last' = [Did("startKeywordSearch") EXCEPT !.note = "sent"]
    /\ UNCHANGED <<tasks, displayed, stats, refreshInterval, timers, inflight,
                   progressBar, server, tabShown, cmdVars, artVars, pageVars, logVars,
                   dlVars, keywordsField, historyReqs, searchHistoryList, typeOptions,
                   typeValue, typesReqs>>

\* startJournalScrape with startTask up to its first await: the info entry
\* and the request, whatever the form holds: the value of #journalFile and
\* parseInt of #startYear and #endYear (Null: NaN, sent as null).
StartJournalScrape ==
    /\ Len(log) < MaxLog
    /\ Len(searchReqs) < MaxSearchReqs
    /\ log' = AddLog(log, "info")
    /\ \E f \in {"", "journals.txt"} : \E y1 \in {Null, 2020} : \E y2 \in {Null, 2020} :
           searchReqs' = Append(searchReqs,
               [url  |-> "/api/journal/scrape",
                data |-> [journal_file |-> f, start_year |-> y1, end_year |-> y2]])
    /\ last' = [Did("startJournalScrape") EXCEPT !.note = "sent"]
    /\ UNCHANGED <<tasks, displayed, stats, refreshInterval, timers, inflight,
                   progressBar, server, tabShown, cmdVars, artVars, pageVars, logVars,
                   dlVars, keywordsField, historyReqs, searchHistoryList, typeOptions,
                   typeValue, typesReqs>>

\* startTask after the awaits: request i resolves "ok" (success = true),
\* "rejected" (success = false) or "throw" (fetch or json() rejects).
StartTaskResolve(i, outcome) ==
    /\ Len(log) < MaxLog
    /\ searchReqs' = RemoveAt(searchReqs, i)
    /\ log' = AddLog(log, IF outcome = "ok" THEN "success" ELSE "error")
    /\ last' = [Did("startTask.resolve") EXCEPT !.outcome = outcome]
    /\ UNCHANGED <<tasks, displayed, stats, refreshInterval, timers, inflight,
                   progressBar, server, tabShown, cmdVars, artVars, pageVars, logVars,
                   dlVars, keywordsField, historyReqs, searchHistoryList, typeOptions,
                   typeValue, typesReqs>>

StartTaskResolves ==
    \E i \in 1..Len(searchReqs) : \E outcome \in {"ok", "rejected", "throw"} :
        StartTaskResolve(i, outcome)

\* loadSearchHistory up to its first await, called by the page.
LoadSearchHistory ==
    /\ historyReqs < MaxHistoryReqs
    /\ historyReqs' = historyReqs + 1
    /\ last' = Did("loadSearchHistory")
    /\ UNCHANGED <<tasks, displayed, stats, refreshInterval, timers, inflight, log,
                   progressBar, server, tabShown, cmdVars, artVars, pageVars, logVars,
                   dlVars, keywordsField, searchReqs, searchHistoryList, typeOptions,
                   typeValue, typesReqs>>

\* The bodies of GET /api/search/history: a list of searches, success without
\* the list, or a refusal.
HistoryResponses ==
    {[success |-> TRUE, history |-> h] : h \in {<<>>, <<1>>, <<1, 2>>, NoList}}
        \cup {[success |-> FALSE, history |-> NoList]}

\* loadSearchHistory after the awaits: with a list the panel is rewritten;
\* with success = false, with no list (history.length throws) or when fetch
\* or json() rejects, one error entry is logged.
LoadSearchHistoryResolve(r, thrown) ==
    LET shown == ~thrown /\ r.success /\ r.history # NoList IN
    /\ historyReqs > 0
    /\ historyReqs' = historyReqs - 1
    /\ IF shown
       THEN /\ searchHistoryList' = r.history
            /\ log' = log
       ELSE /\ Len(log) < MaxLog
            /\ searchHistoryList' = searchHistoryList
            /\ log' = AddLog(log, "error")
    /\ last' = [Did("loadSearchHistory.resolve") EXCEPT
                    !.outcome = IF shown THEN "ok" ELSE IF thrown THEN "throw"
                                ELSE IF r.success THEN "malformed" ELSE "rejected"]
    /\ UNCHANGED <<tasks, displayed, stats, refreshInterval, timers, inflight,
                   progressBar, server, tabShown, cmdVars, artVars, pageVars, logVars,
                   dlVars, keywordsField, searchReqs, typeOptions, typeValue, typesReqs>>

LoadSearchHistoryResolves ==
    \E r \in HistoryResponses : \E thrown \in BOOLEAN : LoadSearchHistoryResolve(r, thrown)

\* The button of a history entry: searchAgain writes the search_query of
\* the entry into #keywords and, given its literature_type ("": none;
\* "thesis": one #literatureType has no option for), assigns it to the
\* select, which then has that option selected, or none; the click on
\* #search-tab changes nothing by itself.
SearchAgain ==
    /\ searchHistoryList # <<>>
    /\ \E keyword \in {<<"a">>, <<"a", " ", "a">>} :
       \E literatureType \in {"", "journal", "thesis"} :
           /\ keywordsField' = keyword
           /\ typeValue' = IF literatureType = "" THEN typeValue
                           ELSE IF literatureType \in Members(typeOptions) THEN literatureType
                           ELSE ""
    /\ last' = Did("searchAgain")
    /\ UNCHANGED <<tasks, displayed, stats, refreshInterval, timers, inflight, log,
                   progressBar, server, tabShown, cmdVars, artVars, pageVars, logVars,
                   dlVars, searchReqs, historyReqs, searchHistoryList, typeOptions,
                   typesReqs>>

\* ---------------------------------------------------------------- CNKIApp

\* Mutant of PushTasks: task_complete adds a record of the finished task.
PushTasksAppend(ts, ev) ==
    IF ev.name = "task_complete"
    THEN Append(ts, Task(Len(ts) + 1, "completed", FALSE))
    ELSE ts

\* What a push event does to TaskManager.tasks: no handler of the socket
\* reads or writes the task manager.
PushTasks(ts, ev) == ts

\* Mutant of PushSelection: task_complete empties the selection.
PushSelectionCleared(sel, ev) == IF ev.name = "task_complete" THEN <<>> ELSE sel

\* What a push event does to selectedArticles: no handler of the socket
\* reads or writes the Set.
PushSelection(sel, ev) == sel

\* Mutant of CompleteReloads: every finished task reloads the two lists.
CompleteReloadsAlways(type) == TRUE

\* handleTaskComplete: `if (data.type === 'keyword')`.
CompleteReloads(type) == type = "keyword"

PushEvents ==
    [name : {"task_complete"}, arg : {"keyword", "journal"}]
        \cup [name : {"log"}, arg : PushLevels]
        \cup [name : {"progress"}, arg : {"50"}]

\* The socket handlers of task_complete, log and progress.  For a finished
\* keyword task handleTaskComplete also calls searchManager.loadSearchHistory()
\* and articleManager.loadArticles(), each up to its first await.
Push ==
    \E ev \in PushEvents :
        /\ ev.name # "progress" => Len(log) < MaxLog
        /\ tasks' = PushTasks(tasks, ev)
        /\ selectedArticles' = PushSelection(selectedArticles, ev)
        /\ log' = CASE ev.name = "task_complete" -> AddLog(log, "success")
                    [] ev.name = "log"           -> AddLog(log, ev.arg)
                    [] OTHER                     -> log
        /\ progressBar' = IF ev.name = "progress" THEN ev.arg ELSE progressBar
        /\ IF ev.name = "task_complete" /\ CompleteReloads(ev.arg)
           THEN /\ historyReqs < MaxHistoryReqs
                /\ historyReqs' = historyReqs + 1
                /\ Len(articleReqs) < MaxArticleReqs
                /\ articleReqs' = Append(articleReqs, ArticleRequest(1, "", "", ""))
           ELSE UNCHANGED <<historyReqs, articleReqs>>
        /\ last' = [Did("push." \o ev.name \o "." \o ev.arg) EXCEPT
                        !.note = IF last.op = "push." \o ev.name \o "." \o ev.arg
                                 THEN "repeat" ELSE ""]
        /\ UNCHANGED <<cmdVars, pageVars, logVars, displayed, stats, refreshInterval,
                       timers, inflight, server, tabShown, currentArticles, currentPage,
                       downloads, dlInflight, downloadTasksList, articlesList, totalPages,
                       dlVars, keywordsField, searchReqs, searchHistoryList, typeOptions,
                       typeValue, typesReqs>>

\* ------------------------------------------------------- CNKIApp: the log

\* addLog, called with any level.
AddLogCall ==
    \E level \in Levels :
        /\ appended < MaxAppends
        /\ appended' = appended + 1
        /\ log' = AddLog(log, level)
        /\ last' = [Did("addLog") EXCEPT
                        !.outcome = IF Len(log) >= LogCap THEN "evicted" ELSE "",
                        !.note = level]
        /\ UNCHANGED <<tasks, displayed, stats, refreshInterval, timers, inflight,
                       progressBar, server, tabShown, cmdVars, artVars, pageVars,
                       searchVars, dlVars>>

\* ----------------------------------------------------------- specifications

\* The state after construction, the log apart.
InitPage ==
    /\ tasks = <<>>
    /\ displayed = <<>>
    /\ stats = [running |-> 0, paused |-> 0, completed |-> 0, failed |-> 0]
    /\ refreshInterval = Null
    /\ timers = {}
    /\ inflight = <<>>
    /\ progressBar = ""
    /\ server = <<>>
    /\ tabShown = FALSE
    /\ last = Did("init")
    /\ commands = <<>>
    /\ detailReqs = 0
    /\ selectedArticles = <<>>
    /\ currentArticles = <<>>
    /\ currentPage = 1
    /\ articleReqs = <<>>
    /\ downloads = <<>>
    /\ dlInflight = 0
    /\ downloadTasksList = <<>>
    /\ articlesList = <<>>
    /\ totalPages = 1
    /\ pagination = [prev |-> Null, pages |-> <<>>, next |-> Null]
    /\ keywordFilter = [options |-> <<"">>, value |-> ""]
    /\ articleSearch = ""
    /\ literatureTypeFilter = ""
    /\ statsPending = FALSE
    /\ literatureStats = "initial"
    /\ appended = 0
    /\ keywordsField = <<>>
    /\ searchReqs = <<>>
    /\ historyReqs = 0
    /\ searchHistoryList = <<>>
    /\ typeOptions = <<>>
    /\ typeValue = ""
    /\ typesReqs = 1
    /\ dlCommands = <<>>

Init == InitPage /\ log = <<>>

Next ==
    \/ LoadTasks
    \/ ResolveAny(SpecResponses)
    \/ LoadTasksThrow
    \/ StartAutoRefresh
    \/ StopAutoRefresh
    \/ Tick
    \/ TabShown
    \/ TabHidden
    \/ ViewTaskDetails
    \/ ViewTaskDetailsResolves

Spec == Init /\ [][Next]_vars

PollNext ==
    \/ LoadTasks
    \/ ResolveAny(PollResponses)
    \/ LoadTasksThrow

PollSpec == Init /\ [][PollNext]_vars

SyncNext ==
    \/ ServerCreate(MaxTasks)
    \/ ServerAdvance
    \/ ServerRespond
    \/ ResolveAnswered
    \/ Tick
    \/ TabShown
    \/ TabHidden
    \/ Push

SyncSpec == Init /\ [][SyncNext]_vars

LiveNext ==
    \/ ServerCreate(MaxTasks)
    \/ ServerAdvance
    \/ ServerRespond
    \/ ResolveAnswered
    \/ Tick
    \/ TabShown
    \/ TabHidden

\* The event loop runs a due timer callback and a settled promise; the worker
\* answers every request.
LiveSpec ==
    /\ Init
    /\ [][LiveNext]_vars
    /\ WF_vars(Tick)
    /\ WF_vars(ServerRespond)
    /\ WF_vars(ResolveAnswered)

\* The task commands (buttons and the three bulk operations) and polls, the
\* worker answering a poll with any list of up to MaxListLen tasks.
CmdNext ==
    \/ LoadTasks
    \/ ResolveAny(PollResponses)
    \/ ClickCommand("pause")
    \/ ClickCommand("resume")
    \/ ClickCommand("stop")
    \/ BulkCommand("pause")
    \/ BulkCommand("resume")
    \/ BulkCommand("stop")
    \/ CommandResolves

CmdSpec == Init /\ [][CmdNext]_vars

\* Page loads and the selection alone.
SelectNext ==
    \/ LoadArticles
    \/ LoadArticlesResolves
    \/ ToggleSelection
    \/ SelectAll
    \/ ClearSelection

SelectSpec == Init /\ [][SelectNext]_vars

\* The article panel: page loads, the selection, bulk and single dispatch and
\* the refresh of the download list, the worker answering with any body.
ArticleNext ==
    \/ LoadArticles
    \/ LoadArticlesResolves
    \/ ToggleSelection
    \/ SelectAll
    \/ ClearSelection
    \/ DownloadSelected
    \/ DownloadSingle
    \/ DownloadResolves
    \/ DownloadLoadTasksResolves

ArticleSpec == Init /\ [][ArticleNext]_vars

\* Page loads alone, the worker answering with any page number and total.
PageNext ==
    \/ LoadArticles
    \/ PageResolves

PageSpec == Init /\ [][PageNext]_vars

\* The filter controls and the pagination links, the articles of a page
\* carrying any keywords.
FilterNext ==
    \/ FilterChange
    \/ SearchArticles
    \/ PageLink
    \/ FacetResolves

FilterSpec == Init /\ [][FilterNext]_vars

\* Page loads and the statistics request that follows each.
StatsNext ==
    \/ LoadArticles
    \/ LoadArticlesResolves
    \/ LoadLiteratureStatsResolve

StatsSpec == Init /\ [][StatsNext]_vars

\* The socket against the lists its events reload, the polls and the selection.
PushNext ==
    \/ Push
    \/ LoadTasks
    \/ ResolveAny(SpecResponses)
    \/ LoadArticlesResolves
    \/ LoadSearchHistoryResolves
    \/ ToggleSelection

PushSpec == Init /\ [][PushNext]_vars

\* The keyword search form.
SearchNext ==
    \/ LoadLiteratureTypes
    \/ LoadLiteratureTypesResolves
    \/ PickLiteratureType
    \/ TypeKeywords
    \/ StartKeywordSearch
    \/ StartTaskResolves

SearchSpec == Init /\ [][SearchNext]_vars

\* The search history and its buttons, and the journal form.
HistoryNext ==
    \/ LoadLiteratureTypesResolves
    \/ LoadSearchHistory
    \/ LoadSearchHistoryResolves
    \/ SearchAgain
    \/ StartKeywordSearch
    \/ StartJournalScrape
    \/ StartTaskResolves

HistorySpec == Init /\ [][HistoryNext]_vars

\* The download panel: its list and its buttons.
DownloadNext ==
    \/ DownloadLoadTasks
    \/ DownloadLoadTasksResolves
    \/ StartDownload
    \/ StopDownload
    \/ DownloadViewTaskDetails
    \/ DlCommandResolves

DownloadSpec == Init /\ [][DownloadNext]_vars

\* Page loads that overlap, the responses arriving in any order.
RaceNext ==
    \/ LoadArticlesRacing
    \/ LoadArticlesResolves

RaceSpec == Init /\ [][RaceNext]_vars

\* The log after n calls that went through the levels in turn.
LevelAt(k) == <<"info", "success", "warning", "error">>[(k % 4) + 1]
LogFill(n) == [k \in 1..n |-> LevelAt(k)]

\* addLog alone, called on a log of any length up to the capacity.
LogInit == InitPage /\ log \in {LogFill(n) : n \in 0..LogCap}

LogSpec == LogInit /\ [][AddLogCall]_vars

\* ------------------------------------------------------------------ claims

CountedStatuses == {"running", "paused", "completed", "failed"}

\* The number of tasks of list ts that have status s.
CountOf(ts, s) == Cardinality({k \in 1..Len(ts) : ts[k].status = s})

PolledOk == last.op = "loadTasks.resolve" /\ last.outcome = "ok"

\* A step in which a poll resolved (only loadTasks' continuation takes a
\* request out of flight).
PollResolves == Len(inflight') < Len(inflight)

\* C1: the response of a poll that was in flight when auto-refresh was
\* stopped or restarted is discarded: when it resolves, tasks, the cards and
\* the counters are as they were just before.
C1_LateResponseDiscarded ==
    (last.op = "loadTasks.resolve" /\ last.stale) => ~last.changed

\* C2: after a poll whose response has success = true, tasks is exactly the
\* `tasks` of the response, record for record.
C2_IngestReplaces ==
    [][ (PollResolves /\ last'.outcome \in {"ok", "malformed"}) =>
            /\ Len(tasks') = Len(last'.resp)
            /\ \A j \in 1..Len(tasks') : tasks'[j] = last'.resp[j] ]_vars

\* The response left out a task the collection held, and was not empty.
C2_Witness == PolledOk /\ last.dropped /\ Len(tasks) > 0

\* C3: a poll that fails (fetch rejects, or success = false) leaves tasks and
\* the counters as they were, appends one error entry to the log, and leaves
\* the timer and its handle as they were, so that the timer's next tick polls.
C3_FailedPollKeepsState ==
    /\ [][ (PollResolves /\ last'.outcome \in {"rejected", "throw"}) =>
               /\ tasks' = tasks
               /\ displayed' = displayed
               /\ stats' = stats
               /\ log' = Append(IF Len(log) < LogCap THEN log ELSE Tail(log), "error")
               /\ timers' = timers
               /\ refreshInterval' = refreshInterval ]_vars
    /\ [](( /\ last.op = "loadTasks.resolve"
            /\ last.outcome \in {"rejected", "throw"}
            /\ refreshInterval # Null
            /\ Len(inflight) < MaxInflight ) => ENABLED Tick)

C3_Witness ==
    /\ last.op = "loadTasks.resolve"
    /\ last.outcome = "rejected"
    /\ Len(tasks) > 0
    /\ refreshInterval \in timers
    /\ log = <<"error">>

\* C4: every live timer is the one refreshInterval refers to, so at most one
\* timer is live.
C4_OneTimer ==
    timers = (IF refreshInterval = Null THEN {} ELSE {refreshInterval})

C4_Witness ==
    last.op = "startAutoRefresh" /\ last.note = "restart" /\ Cardinality(timers) = 1

\* C5: stopAutoRefresh leaves refreshInterval null and no timer live, and
\* called with no timer running it changes nothing.
C5_StopIdempotent ==
    [][ last'.op = "stopAutoRefresh" =>
            /\ refreshInterval' = Null
            /\ timers' = {}
            /\ last'.note = "noop" =>
                   /\ UNCHANGED <<tasks, displayed, stats, refreshInterval, timers, log,
                                  progressBar, tabShown>>
                   /\ Len(inflight') = Len(inflight) ]_vars

C5_Witness ==
    last.op = "stopAutoRefresh" /\ last.note = "noop" /\ refreshInterval = Null

\* C6: hiding the tasks tab leaves no timer live, a timer tick issues a poll
\* only while the tab is shown, and showing the tab issues one poll and starts
\* the timer.
C6_HiddenStopsPolling ==
    [][ /\ (tabShown /\ ~tabShown') => (timers' = {} /\ refreshInterval' = Null)
        /\ (~tabShown /\ tabShown') =>
               /\ Len(inflight') = Len(inflight) + 1
               /\ ~inflight'[Len(inflight')].answered
               /\ refreshInterval' # Null
               /\ timers' = {refreshInterval'}
        /\ (Len(inflight') > Len(inflight) /\ tabShown' = tabShown) => tabShown ]_vars

C6_Witness ==
    last.op = "hidden" /\ last.note = "stop" /\ timers = {} /\ Len(inflight) > 0

\* C7 (as claimed): no step gives another status to a task that tasks holds as
\* completed or failed.
C7_TerminalStatusFinal ==
    [][ \A k \in 1..Len(tasks) : \A j \in 1..Len(tasks') :
            (tasks[k].status \in Terminal /\ tasks'[j].id = tasks[k].id)
                => tasks'[j].status = tasks[k].status ]_vars

\* C7 (amended): the collection enforces no final status. A poll with
\* success = true gives every task, also one held as completed or failed, the
\* record of the response; no other step (a push event among them) changes
\* tasks.
C7_SnapshotDecidesStatus ==
    [][ /\ (PollResolves /\ last'.outcome = "ok") =>
               \A k \in 1..Len(tasks) : \A j \in 1..Len(last'.resp) :
                   (tasks[k].status \in Terminal /\ last'.resp[j].id = tasks[k].id)
                       => (j <= Len(tasks') /\ tasks'[j] = last'.resp[j])
        /\ ~PollResolves => tasks' = tasks ]_vars

C7_Witness ==
    PolledOk /\ last.reopened /\ Len(tasks) > 0 /\ tasks[1].status = "running"

\* C8: after a poll with success = true each of the four counters is the
\* number of tasks of the current collection with that status.
C8_CountsMatch ==
    PolledOk => \A s \in CountedStatuses : stats[s] = CountOf(tasks, s)

C8_Witness == PolledOk /\ last.changed /\ stats.running = 2

PushOps == {"push." \o ev.name \o "." \o ev.arg : ev \in PushEvents}

\* C9: the second of two deliveries in a row of the same push event leaves
\* tasks as the first left it.
C9_PushTwiceAsOnce ==
    [][ (last.op \in PushOps /\ last'.op = last.op) => tasks' = tasks ]_vars

C9_Witness ==
    last.op \in PushOps /\ last.note = "repeat" /\ Len(tasks) > 0 /\ Len(log) = 2

\* C10: with no push event ever delivered, if from some moment on the tasks
\* tab stays shown and the worker's list stays S, then from some moment on
\* tasks is S.
C10_PollingAloneConverges ==
    \A S \in TaskLists(MaxTasks) :
        <>[](tabShown /\ server = S) => <>[](tasks = S)

C10_Witness ==
    /\ tabShown
    /\ Len(server) > 0
    /\ server[1].status \in Terminal
    /\ tasks = server
    /\ PolledOk

CommandResolveOps == {k \o "Task.resolve" : k \in CommandKinds}

\* C11: the continuation of a pause, resume or stop command never writes
\* tasks, the rendered list or the counters; when the command was rejected
\* (success = false) or failed in transport it appends one error entry to the
\* log and issues no poll; and tasks changes only in a step in which a poll
\* with success = true resolves.
C11_RejectedCommandKeepsState ==
    /\ [][ (last'.op \in CommandResolveOps /\ commands' # commands) =>
               /\ tasks' = tasks
               /\ displayed' = displayed
               /\ stats' = stats
               /\ last'.outcome \in {"rejected", "throw"} =>
                      /\ log' = Append(IF Len(log) < LogCap THEN log ELSE Tail(log), "error")
                      /\ inflight' = inflight ]_vars
    /\ [][ tasks' # tasks => (PollResolves /\ last'.outcome \in {"ok", "malformed"}) ]_vars

C11_Witness ==
    /\ last.op = "pauseTask.resolve"
    /\ last.outcome = "rejected"
    /\ KnownStatus(tasks, 1) = "running"
    /\ log = <<"error">>

\* Whether status st permits the transition command `kind` asks for.
Permits(kind, st) ==
    CASE kind = "pause"  -> st = "running"
      [] kind = "resume" -> st = "paused"
      [] kind = "stop"   -> st \in {"running", "paused"}
      [] OTHER           -> FALSE

\* C12: every pause, resume or stop request left when the status tasks held
\* for its task permitted the transition: pause for a running task, resume
\* for a paused one, stop for a running or paused one.
C12_CommandPermitted ==
    \A i \in 1..Len(commands) : Permits(commands[i].kind, commands[i].known)

\* The log after addLog has appended one entry of the given level.
Logged(lg, level) == Append(IF Len(lg) < LogCap THEN lg ELSE Tail(lg), level)

\* C13: no step of loadArticles, neither the call nor the arrival of any
\* response (a page, a body without the list, a refusal, a transport failure),
\* changes selectedArticles; so ids selected on page 1 are still selected
\* after page 2 was loaded and page 1 loaded again.
C13_LoadKeepsSelection ==
    [][ articleReqs' # articleReqs => selectedArticles' = selectedArticles ]_vars

C13_Witness ==
    /\ last.op = "loadArticles.resolve"
    /\ last.outcome = "ok"
    /\ last.note = "return"
    /\ currentPage = 1
    /\ currentArticles = <<1, 2>>
    /\ Members(selectedArticles) = {1, 2}

\* C14 (as claimed): when a bulk dispatch finishes, whatever its outcome, the
\* selection is empty.
C14_SelectionEmptyAfterDispatch ==
    [][ last'.op = "downloadSelected.resolve" => selectedArticles' = <<>> ]_vars

\* C14 (amended): when a bulk dispatch finishes the selection is empty if the
\* server accepted it, and is left as it was at that moment if the server
\* rejected it or the request failed in transport.
C14_SelectionClearedOnAccept ==
    [][ last'.op = "downloadSelected.resolve" =>
            selectedArticles' = (IF last'.outcome = "ok" THEN <<>> ELSE selectedArticles) ]_vars

C14_Witness ==
    /\ last.op = "downloadSelected.resolve"
    /\ last.outcome = "rejected"
    /\ Members(selectedArticles) = {1, 2}
    /\ log = <<"error">>

\* C15: downloadSelected called with nothing selected sends no request, appends
\* one error entry to the log and changes nothing else.
C15_EmptySelectionGuard ==
    [][ (last'.op = "downloadSelected" /\ Len(selectedArticles) = 0) =>
            /\ downloads' = downloads
            /\ log' = Logged(log, "error")
            /\ UNCHANGED <<selectedArticles, currentArticles, articlesList, currentPage,
                           totalPages, articleReqs, dlInflight, downloadTasksList, tasks,
                           displayed, stats, inflight, commands>> ]_vars

C15_Witness ==
    /\ last.op = "downloadSelected"
    /\ last.note = "empty"
    /\ currentArticles = <<1, 2>>
    /\ downloads = <<>>
    /\ log = <<"error">>

\* C16 (as claimed): no two bulk requests in flight carry the same article ids.
C16_OneDispatchPerBatch ==
    \A i, j \in 1..Len(downloads) :
        (i < j /\ ~downloads[i].single /\ ~downloads[j].single)
            => Members(downloads[i].article_ids) # Members(downloads[j].article_ids)

\* C16 (amended): every call of downloadSelected with a non-empty selection
\* sends one request that carries the ids selected at that moment, and leaves
\* the selection as it is; so a second call before the first request has
\* resolved sends the same ids again.
C16_DispatchCarriesSelection ==
    [][ (last'.op = "downloadSelected" /\ last'.note = "sent") =>
            /\ Len(downloads') = Len(downloads) + 1
            /\ downloads'[Len(downloads')].article_ids = selectedArticles
            /\ ~downloads'[Len(downloads')].single
            /\ selectedArticles' = selectedArticles ]_vars

C16_Witness ==
    /\ last.op = "downloadSelected"
    /\ Len(downloads) = 2
    /\ ~downloads[1].single
    /\ ~downloads[2].single
    /\ downloads[1].article_ids = downloads[2].article_ids
    /\ selectedArticles = downloads[2].article_ids

\* C17 (as claimed): when the server accepts a bulk dispatch the selection is
\* cleared and a poll of the task registry (GET /api/tasks) leaves.
C17_AcceptRefreshesRegistry ==
    [][ (last'.op = "downloadSelected.resolve" /\ last'.outcome = "ok") =>
            /\ selectedArticles' = <<>>
            /\ Len(inflight') = Len(inflight) + 1 ]_vars

\* C17 (amended): when the server accepts a bulk dispatch the selection is
\* cleared and, a page being loaded, one GET /api/download/tasks leaves (with
\* no page list loaded clearSelection throws and none leaves); no poll of the
\* task registry leaves and tasks is not written.
C17_AcceptRefreshesDownloadList ==
    [][ (last'.op = "downloadSelected.resolve" /\ last'.outcome = "ok") =>
            /\ selectedArticles' = <<>>
            /\ dlInflight' = (IF currentArticles = NoList THEN dlInflight ELSE dlInflight + 1)
            /\ Len(inflight') = Len(inflight)
            /\ tasks' = tasks ]_vars

C17_Witness ==
    /\ last.op = "downloadSelected.resolve"
    /\ last.outcome = "ok"
    /\ last.note = ""
    /\ selectedArticles = <<>>
    /\ dlInflight = 1
    /\ inflight = <<>>

\* C18 (as claimed): when a single download finishes, the selection, the
\* download-list refresh and the log are as a bulk dispatch leaves them:
\* accepted, the selection is empty.
C18_SingleAsBulk ==
    [][ last'.op = "downloadSingle.resolve" =>
            /\ selectedArticles' = (IF last'.outcome = "ok" THEN <<>> ELSE selectedArticles)
            /\ dlInflight' = (IF last'.outcome = "ok" THEN dlInflight + 1 ELSE dlInflight)
            /\ log' = Logged(log, IF last'.outcome = "ok" THEN "info" ELSE "error") ]_vars

\* C18 (amended): downloadSingle(id) sends the request a bulk dispatch of the
\* batch [id] with max_workers = 1 sends; when it finishes it logs one info
\* entry and issues one GET /api/download/tasks if accepted, one error entry
\* otherwise; and it never changes the selection or the active tab.
C18_SingleLeavesSelection ==
    /\ [][ last'.op = "downloadSingle" =>
               /\ Len(downloads') = Len(downloads) + 1
               /\ Len(downloads'[Len(downloads')].article_ids) = 1
               /\ downloads'[Len(downloads')].max_workers = 1
               /\ selectedArticles' = selectedArticles ]_vars
    /\ [][ (last'.op = "downloadSelected" /\ last'.note = "sent") =>
               \A id \in ArticleIds :
                   (selectedArticles = <<id>> /\ downloads'[Len(downloads')].max_workers = 1)
                       => [downloads'[Len(downloads')] EXCEPT !.single = TRUE]
                              = DownloadRequest(<<id>>, 1, TRUE) ]_vars
    /\ [][ last'.op = "downloadSingle.resolve" =>
               /\ selectedArticles' = selectedArticles
               /\ tabShown' = tabShown
               /\ dlInflight' = (IF last'.outcome = "ok" THEN dlInflight + 1 ELSE dlInflight)
               /\ log' = Logged(log, IF last'.outcome = "ok" THEN "info" ELSE "error") ]_vars

C18_Witness ==
    /\ last.op = "downloadSingle.resolve"
    /\ last.outcome = "ok"
    /\ selectedArticles = <<1>>
    /\ dlInflight = 1
    /\ log = <<"info">>

\* C19: toggleSelection(id) flips the membership of id and of no other id,
\* keeps the members distinct, and applied twice with the same id gives back
\* the same set of ids.
C19_ToggleSymmetric ==
    /\ [][ last'.op = "toggleSelection" =>
               \E id \in ArticleIds :
                   /\ (id \in Members(selectedArticles')) # (id \in Members(selectedArticles))
                   /\ Members(selectedArticles') \ {id} = Members(selectedArticles) \ {id}
                   /\ Len(selectedArticles') = Cardinality(Members(selectedArticles')) ]_vars
    /\ [](\A id \in ArticleIds :
              Members(Toggle(Toggle(selectedArticles, id), id)) = Members(selectedArticles))

C19_Witness ==
    /\ last.op = "toggleSelection"
    /\ last.note = "removed"
    /\ selectedArticles = <<2>>
    /\ currentArticles = <<1, 2>>

\* C20: after selectAll the selection is what it was together with the ids of
\* the loaded page, and selectAll applied to its own result changes nothing.
C20_SelectAllUnion ==
    /\ [][ last'.op = "selectAll" =>
               Members(selectedArticles') =
                   Members(selectedArticles) \cup Members(currentArticles) ]_vars
    /\ [](currentArticles # NoList =>
              SelectAllIds(SelectAllIds(selectedArticles, currentArticles), currentArticles)
                  = SelectAllIds(selectedArticles, currentArticles))

C20_Witness ==
    /\ last.op = "selectAll"
    /\ currentArticles = <<1>>
    /\ Members(selectedArticles) = {1, 2}

\* The indices lo..hi, in order.
Range(lo, hi) == [k \in 1..(hi - lo + 1) |-> lo + k - 1]

\* This step is a loadArticles that resolved with a page.
ArticlesLoaded == last'.op = "loadArticles.resolve" /\ last'.outcome = "ok"

\* C21 (as claimed): once a page has loaded, the page indices shown are the
\* contiguous range [max(1, currentPage - 2), min(totalPages, currentPage + 2)]:
\* at most 5 indices, all within [1, totalPages], currentPage among them.
C21_WindowAlwaysShown ==
    [][ ArticlesLoaded =>
            LET lo == Max(1, currentPage' - 2)
                hi == Min(totalPages', currentPage' + 2)
                shown == pagination'.pages
            IN  /\ shown = Range(lo, hi)
                /\ Len(shown) <= 5
                /\ \A k \in 1..Len(shown) : shown[k] \in 1..totalPages'
                /\ currentPage' \in Members(shown) ]_vars

\* C21 (amended): with more than one page the indices shown are that range, at
\* most 5, all within [1, totalPages], and currentPage is among them whenever
\* currentPage <= totalPages; with at most one page no index is shown.
C21_WindowWhenSeveralPages ==
    [][ ArticlesLoaded =>
            LET lo == Max(1, currentPage' - 2)
                hi == Min(totalPages', currentPage' + 2)
                shown == pagination'.pages
            IN  IF totalPages' > 1
                THEN /\ shown = Range(lo, hi)
                     /\ Len(shown) <= 5
                     /\ \A k \in 1..Len(shown) : shown[k] \in 1..totalPages'
                     /\ currentPage' <= totalPages' => currentPage' \in Members(shown)
                ELSE shown = <<>> ]_vars

\* Page 5 of 10 has loaded and the links 3, 4, 5, 6, 7 are shown.
C21_Witness ==
    /\ last.op = "loadArticles.resolve"
    /\ last.outcome = "ok"
    /\ totalPages = 10
    /\ currentPage = 5
    /\ pagination.pages = <<3, 4, 5, 6, 7>>

\* C22: after a loadArticles that resolved with a page, the loaded page is the
\* list of the response, currentPage is its page, and totalPages is the least
\* number of pages of per_page articles that hold its total.
C22_LoadReplacesPage ==
    [][ ArticlesLoaded =>
            LET r == last'.resp
            IN  /\ currentArticles' = r.articles
                /\ currentPage' = r.page
                /\ totalPages' * r.per_page >= r.total
                /\ (totalPages' - 1) * r.per_page < r.total ]_vars

\* A full page came back with total = 95 and per_page = 10: 10 pages.
C22_Witness ==
    /\ last.op = "loadArticles.resolve"
    /\ last.outcome = "ok"
    /\ last.resp.total = 95
    /\ last.resp.per_page = 10
    /\ totalPages = 10
    /\ currentArticles = last.resp.articles
    /\ currentArticles # <<>>

\* C23: the article request that follows a change of a filter (search text,
\* keyword, literature type) asks for page 1.
C23_FilterChangeAsksPageOne ==
    [][ (last.op = "filterChange" /\ Len(articleReqs') > Len(articleReqs))
            => articleReqs'[Len(articleReqs')].page = 1 ]_vars

\* C29: a loadArticles that fails (the fetch rejects, or success = false)
\* leaves the loaded page, currentPage and totalPages as they were and appends
\* one error entry to the log.
C29_FailedLoadKeepsPage ==
    [][ (last'.op = "loadArticles.resolve" /\ last'.outcome \in {"rejected", "throw"})
            => /\ currentArticles' = currentArticles
               /\ currentPage' = currentPage
               /\ totalPages' = totalPages
               /\ log' = Logged(log, "error") ]_vars

\* Page 2 of 2 was loaded, then a load failed: the page is still there.
C29_Witness ==
    /\ last.op = "loadArticles.resolve"
    /\ last.outcome \in {"rejected", "throw"}
    /\ currentArticles \notin {<<>>, NoList}
    /\ currentPage = 2
    /\ totalPages = 2
    /\ log = <<"error">>

\* C30: after a loadArticles that resolved with a page, the options of the
\* keyword filter are the "all keywords" entry followed by the distinct
\* non-empty keywords of the articles of that page, each once.
C30_FacetsAreKeywordsOfPage ==
    [][ ArticlesLoaded =>
            LET present == Members(last'.resp.keywords) \ {""}
                options == keywordFilter'.options
            IN  /\ options[1] = ""
                /\ {options[k] : k \in 2..Len(options)} = present
                /\ Len(options) = 1 + Cardinality(present) ]_vars

\* A page of two articles with the same keyword has loaded: one option for it.
C30_Witness ==
    /\ last.op = "loadArticles.resolve"
    /\ last.outcome = "ok"
    /\ Len(last.resp.keywords) = 2
    /\ last.resp.keywords[1] = last.resp.keywords[2]
    /\ last.resp.keywords[1] # ""
    /\ keywordFilter.options = <<"", last.resp.keywords[1]>>

\* C24: after any addLog call the log holds at most 100 entries, in the order
\* they were appended, the new entry last; when the log was full the entry
\* dropped is the oldest one.
C24_LogBounded ==
    [][ last'.op = "addLog" =>
            /\ Len(log') <= LogCap
            /\ log'[Len(log')] = last'.note
            /\ IF Len(log) < LogCap
               THEN /\ Len(log') = Len(log) + 1
                    /\ \A k \in 1..Len(log) : log'[k] = log[k]
               ELSE /\ Len(log') = LogCap
                    /\ \A k \in 1..(LogCap - 1) : log'[k] = log[k + 1] ]_vars

\* addLog was called on a full log, twice or more: the log is still full.
C24_Witness ==
    /\ last.op = "addLog"
    /\ last.outcome = "evicted"
    /\ appended >= 2
    /\ Len(log) = LogCap
    /\ log[LogCap] = last.note

\* C25: no operation ends in failure without an entry: a request that is
\* refused, that cannot be completed or whose answer cannot be processed
\* appends exactly one entry at error level to the log.
C25_EveryFailureLogged ==
    [][ last'.outcome \in {"rejected", "throw", "malformed"}
            => log' = Logged(log, "error") ]_vars

\* C26 (as claimed): a poll that resolves after a poll issued later has
\* resolved with a snapshot does not overwrite that snapshot.
C26_NewerSnapshotStays ==
    [][ (last'.op = "loadTasks.resolve" /\ last'.note = "late") => tasks' = tasks ]_vars

\* C26 (amended): of two overlapping polls the one that resolves last decides:
\* when it reports success its list replaces the collection, also when it was
\* issued first.
C26_LastResolvedDecides ==
    [][ (last'.op = "loadTasks.resolve" /\ last'.note = "late" /\ last'.outcome = "ok")
            => tasks' = last'.resp ]_vars

\* The older of two overlapping polls resolved last and replaced the snapshot
\* the newer one had left.
C26_Witness ==
    /\ last.op = "loadTasks.resolve"
    /\ last.note = "late"
    /\ last.outcome = "ok"
    /\ last.changed
    /\ tasks = last.resp

\* C27: whenever a loadTasks that resolves logs an error, tasks is the
\* collection it was before, and not undefined.
C27_ErrorLeavesTasks ==
    [][ (last'.op = "loadTasks.resolve" /\ log' # log)
            => (tasks' = tasks /\ tasks' # Undefined) ]_vars

\* C28: on every task card shown, stop is offered when the task is paused,
\* resume only when it is paused and can_resume, pause only when it is running.
C28_PausedCanBeStopped ==
    \A k \in 1..Len(displayed) :
        LET t == displayed[k]
        IN  /\ t.status = "paused" => Offered("stop", t)
            /\ Offered("resume", t) => (t.status = "paused" /\ t.can_resume)
            /\ Offered("pause", t) => t.status = "running"

\* C31: a click on a pagination link (previous, next or a page index) issues
\* an article request that carries the search text, the keyword and the
\* literature type of the request that produced the displayed page.  Stated
\* for the link clicked right after that page was displayed.
C31_LinkKeepsFilters ==
    [][(/\ last.op = "loadArticles.resolve"
        /\ last.outcome = "ok"
        /\ last'.op = "loadArticles"
        /\ last'.note = "link")
       => LET q == articleReqs'[Len(articleReqs')] IN
          /\ q.search = last.query.search
          /\ q.keyword = last.query.keyword
          /\ q.literature_type = last.query.literature_type]_vars

\* C32 (as claimed): when the response to an earlier loadArticles request
\* arrives after the page of a later request was displayed, and no request
\* is left in flight, the displayed page stays the one of the later request.
C32_LastIssuedStays ==
    [][ (/\ last'.op = "loadArticles.resolve"
         /\ last'.outcome = "ok"
         /\ last'.late
         /\ articleReqs' = <<>>)
            => /\ currentArticles' = currentArticles
               /\ currentPage' = currentPage
               /\ totalPages' = totalPages ]_vars

\* C32 (amended): the response that arrives last with a page decides what is
\* displayed, whichever request was issued first: the page of an earlier
\* request that arrives after the page of a later one replaces it.
C32_LastResolvedShown ==
    [][ (/\ last'.op = "loadArticles.resolve"
         /\ last'.outcome = "ok"
         /\ last'.late)
            => /\ currentArticles' = last'.resp.articles
               /\ articlesList' = last'.resp.articles
               /\ currentPage' = last'.resp.page ]_vars

\* Two requests were in flight; the later one brought page 2 with no article,
\* then the earlier one brought page 1 with two, which is what is displayed.
C32_Witness ==
    /\ last.op = "loadArticles.resolve"
    /\ last.outcome = "ok"
    /\ last.late
    /\ articleReqs = <<>>
    /\ currentPage = 1
    /\ currentArticles = <<1, 2>>
    /\ articlesList = <<1, 2>>

\* C33: every article id that the continuation of a bulk dispatch removes
\* from the selection was among the article_ids of the request that resolved;
\* an id toggled into the selection while that request was in flight stays.
C33_ClearedIdsWereSent ==
    [][ last'.op = "downloadSelected.resolve" =>
            \E i \in 1..Len(downloads) :
                /\ ~downloads[i].single
                /\ downloads' = RemoveAt(downloads, i)
                /\ (Members(selectedArticles) \ Members(selectedArticles'))
                       \subseteq Members(downloads[i].article_ids) ]_vars

\* The filters C34 names: running; paused with can_resume; running or paused.
C34_Matches(kind, t) ==
    \/ kind = "pause" /\ t.status = "running"
    \/ kind = "resume" /\ t.status = "paused" /\ t.can_resume
    \/ kind = "stop" /\ t.status \in {"running", "paused"}

C34_Matched(kind) == SelectSeq(tasks, LAMBDA t : C34_Matches(kind, t))

\* Whether the command sent last in this step is the bulk command `kind` for
\* task id, appended to the commands in flight `before`.
C34_Sent(before, kind, id) ==
    /\ Len(commands') = Len(before) + 1
    /\ SubSeq(commands', 1, Len(before)) = before
    /\ commands'[Len(commands')].kind = kind
    /\ commands'[Len(commands')].id = id
    /\ commands'[Len(commands')].bulk

\* The commands in flight that pauseAll/resumeAll/stopAll loops await.
C34_Batches(cmds) == Cardinality({i \in 1..Len(cmds) : cmds[i].bulk})

\* C34 (as claimed): a call of pauseAllTasks, resumeAllTasks or stopAllTasks
\* made while tasks holds a list with a task that matches its filter sends
\* the command of the first such task.
C34_MatchedTasksAreCommanded ==
    [][ \A kind \in CommandKinds :
            (/\ last'.op = kind \o "AllTasks"
             /\ tasks # Undefined
             /\ C34_Matched(kind) # <<>>)
                => C34_Sent(commands, kind, C34_Matched(kind)[1].id) ]_vars

\* C34 (amended): a call with no list in tasks, a call that matches no task
\* (one warning) and a stopAllTasks the user declines send nothing; any other
\* call sends the command of the first task that matches and keeps the ids of
\* the other matching tasks, in list order; each response to a command of a
\* batch sends the command of the next id that batch kept, and no other step
\* than a call adds a command of a batch, so each batch has one command in
\* flight at a time; and a poll that resolves changes no command in flight
\* and no kept id.
C34_BulkWalksItsSnapshot ==
    /\ [][ \A kind \in CommandKinds :
               last'.op = kind \o "AllTasks" =>
                   LET chosen == C34_Matched(kind) IN
                   IF tasks = Undefined
                   THEN UNCHANGED <<commands, log>>
                   ELSE IF chosen = <<>>
                   THEN /\ UNCHANGED commands
                        /\ log' = Logged(log, "warning")
                   ELSE IF last'.note = "declined"
                   THEN /\ kind = "stop"
                        /\ UNCHANGED <<commands, log>>
                   ELSE /\ C34_Sent(commands, kind, chosen[1].id)
                        /\ commands'[Len(commands')].rest =
                               [j \in 1..(Len(chosen) - 1) |-> chosen[j + 1].id]
                        /\ log' = log ]_vars
    /\ [][ last'.op \in CommandResolveOps =>
               \E i \in 1..Len(commands) :
                   IF commands[i].rest # <<>>
                   THEN /\ C34_Sent(RemoveAt(commands, i), commands[i].kind,
                                    Head(commands[i].rest))
                        /\ commands'[Len(commands')].rest = Tail(commands[i].rest)
                   ELSE commands' = RemoveAt(commands, i) ]_vars
    /\ [][ last'.op \notin {kind \o "AllTasks" : kind \in CommandKinds} =>
               C34_Batches(commands') <= C34_Batches(commands) ]_vars
    /\ [][ PollResolves => UNCHANGED commands ]_vars

\* pauseAllTasks found tasks 1 and 2 running; while the command of task 1 was
\* in flight a poll replaced tasks, which no longer holds task 2 as running;
\* the response to the first command came and the command of task 2 left.
C34_Witness ==
    /\ last.op = "pauseTask.resolve"
    /\ Len(commands) = 1
    /\ commands[1].bulk
    /\ commands[1].kind = "pause"
    /\ commands[1].id = 2
    /\ commands[1].known # "running"
    /\ commands[1].rest = <<>>

\* C35: the handlers of the push events task_complete, log and progress
\* leave TaskManager.tasks and selectedArticles as they were, also while a
\* poll is in flight; so whichever of a push event and an overlapping poll
\* arrives first, tasks is what the poll alone makes it.
C35_PushKeepsRegistryAndSelection ==
    [][ last'.op \in PushOps =>
            /\ tasks' = tasks
            /\ selectedArticles' = selectedArticles
            /\ inflight' = inflight ]_vars

\* A finished-task event arrived while a poll was in flight, a task being
\* known and an article selected.
C35_Witness ==
    /\ last.op \in {"push.task_complete.keyword", "push.task_complete.journal"}
    /\ Len(inflight) > 0
    /\ tasks # Undefined
    /\ Len(tasks) > 0
    /\ Len(selectedArticles) > 0

\* C36: a task_complete event appends one success entry to the log; for type
\* 'keyword' one GET /api/search/history and one GET /api/articles (page 1,
\* no filter) leave and no other request; for any other type no request
\* leaves at all.
C36_CompleteLogsAndReloadsKeyword ==
    [][ \A type \in {"keyword", "journal"} :
            last'.op = "push.task_complete." \o type =>
                /\ log' = Logged(log, "success")
                /\ IF type = "keyword"
                   THEN /\ historyReqs' = historyReqs + 1
                        /\ Len(articleReqs') = Len(articleReqs) + 1
                        /\ SubSeq(articleReqs', 1, Len(articleReqs)) = articleReqs
                        /\ articleReqs'[Len(articleReqs')].page = 1
                   ELSE UNCHANGED <<historyReqs, articleReqs>>
                /\ UNCHANGED <<inflight, commands, downloads, dlInflight, searchReqs,
                               statsPending>> ]_vars

\* A finished keyword task: the success entry and the two requests.
C36_Witness ==
    /\ last.op = "push.task_complete.keyword"
    /\ log = <<"success">>
    /\ historyReqs = 1
    /\ Len(articleReqs) = 1
    /\ articleReqs[1].page = 1

\* The lines of a text that hold a character other than white space, in
\* order: the pieces between consecutive line feeds (or the ends).
C37_Breaks(text) == {0, Len(text) + 1} \cup {k \in 1..Len(text) : text[k] = "\n"}

C37_LineFrom(text, b) ==
    LET e == CHOOSE k \in C37_Breaks(text) :
                 k > b /\ \A h \in C37_Breaks(text) : h > b => h >= k
    IN  SubSeq(text, b + 1, e - 1)

RECURSIVE C37_LinesFrom(_, _)
C37_LinesFrom(text, b) ==
    IF b > Len(text) THEN <<>>
    ELSE LET line == C37_LineFrom(text, b)
             rest == C37_LinesFrom(text, b + Len(line) + 1)
         IN  IF \E k \in 1..Len(line) : line[k] = "a" THEN <<line>> \o rest ELSE rest

\* C37: startKeywordSearch with no non-blank line in #keywords sends nothing
\* and appends one error entry to the log; with at least one it sends one
\* POST /api/keyword/scrape whose keywords are the non-blank lines, in order,
\* and no other request.
C37_BlankGuardAndOneStart ==
    [][ last'.op = "startKeywordSearch" =>
            LET lines == C37_LinesFrom(keywordsField, 0) IN
            /\ IF lines = <<>>
               THEN /\ searchReqs' = searchReqs
                    /\ log' = Logged(log, "error")
               ELSE /\ Len(searchReqs') = Len(searchReqs) + 1
                    /\ SubSeq(searchReqs', 1, Len(searchReqs)) = searchReqs
                    /\ searchReqs'[Len(searchReqs')].data.keywords = lines
            /\ UNCHANGED <<inflight, commands, articleReqs, downloads, dlInflight,
                           historyReqs, statsPending>> ]_vars

====
